---- MODULE Spec2Model ----
(***************************************************************************)
(* Model of the spice-spice-baby worker: the email handler and the HTTP    *)
(* test routes of src/src/index.ts, the ingestion parser of                *)
(* src/src/services/email-parser.ts, the extraction strategies of          *)
(* src/src/services/claude.ts and the video services.                      *)
(*                                                                         *)
(* Strings are TLA+ strings; JavaScript's undefined is the value Undef.    *)
(***************************************************************************)
EXTENDS Integers, Sequences, FiniteSets, TLC

VARIABLES
  req,      \* the inbound request: an email message or an HTTP request
  pc,       \* position of the handler
  parsed,   \* result of parseEmailContent (images, pdfs, urls, videos)
  item,     \* index of the content item being processed
  stage,    \* next stage of the current item's chain
  ctx,      \* locals of the current item's chain
  results,  \* the handler's results collector (index.ts line 37)
  calls,    \* log of the external calls made, in order
  thrown,   \* the error the handler propagated to its caller, or Undef
  fin,      \* input of the pure function under study
  fout      \* its output

vars == <<req, pc, parsed, item, stage, ctx, results, calls, thrown, fin, fout>>

handlerVars == <<req, parsed, item, stage, ctx, results, calls, thrown>>

\* JavaScript's undefined / a missing property.
Undef == "<undefined>"

\* JavaScript's null.
Null == "<null>"

(***************************************************************************)
(* String primitives.                                                      *)
(***************************************************************************)

CharAt(s, i) == SubSeq(s, i, i)

\* String.prototype.substring(from) with a 1-based index.
SubstringFrom(s, i) == SubSeq(s, i, Len(s))

\* String.prototype.includes, for a non-empty pattern.
Includes(s, p) ==
  \E i \in 1..(Len(s) - Len(p) + 1) : SubSeq(s, i, i + Len(p) - 1) = p

UpperLetters == "ABCDEFGHIJKLMNOPQRSTUVWXYZ"

LowerLetters == "abcdefghijklmnopqrstuvwxyz"

UpperSet == {CharAt(UpperLetters, i) : i \in 1..Len(UpperLetters)}

LowerMap ==
  [c \in UpperSet |->
     CharAt(LowerLetters, CHOOSE i \in 1..Len(UpperLetters) : CharAt(UpperLetters, i) = c)]

LowerChar(c) == IF c \in UpperSet THEN LowerMap[c] ELSE c

RECURSIVE ToLowerCase(_)
\* String.prototype.toLowerCase.
ToLowerCase(s) ==
  IF Len(s) = 0 THEN ""
  ELSE LowerChar(CharAt(s, 1)) \o ToLowerCase(SubstringFrom(s, 2))

\* Index of the first occurrence of one of the characters cs at or after i,
\* Len(s) + 1 when there is none.
RECURSIVE IndexOfAny(_, _, _)
IndexOfAny(s, cs, i) ==
  IF i > Len(s) THEN Len(s) + 1
  ELSE IF CharAt(s, i) \in cs THEN i
  ELSE IndexOfAny(s, cs, i + 1)

\* String.prototype.split(sep) for a one-character separator.
RECURSIVE Split(_, _)
Split(s, sep) ==
  LET k == IndexOfAny(s, {sep}, 1)
  IN IF k > Len(s) THEN <<s>>
     ELSE <<SubSeq(s, 1, k - 1)>> \o Split(SubstringFrom(s, k + 1), sep)

\* Array.prototype.join.
RECURSIVE Join(_, _)
Join(xs, sep) ==
  IF Len(xs) = 0 THEN ""
  ELSE IF Len(xs) = 1 THEN xs[1]
  ELSE xs[1] \o sep \o Join(Tail(xs), sep)

(***************************************************************************)
(* email-parser.ts: attachment and URL classification.                     *)
(***************************************************************************)

SUPPORTED_IMAGE_TYPES ==
  <<"image/jpeg", "image/jpg", "image/png", "image/gif", "image/webp",
    "image/heic", "image/heif">>

PDF_MIME_TYPE == "application/pdf"

RECIPE_DOMAINS ==
  <<"allrecipes.com", "foodnetwork.com", "epicurious.com", "bonappetit.com",
    "seriouseats.com", "simplyrecipes.com", "budgetbytes.com", "delish.com",
    "tasty.co", "food52.com", "cookinglight.com", "myrecipes.com",
    "tasteofhome.com", "kingarthurbaking.com", "smittenkitchen.com",
    "minimalistbaker.com", "thekitchn.com", "recipetineats.com",
    "halfbakedharvest.com", "pinchofyum.com", "damndelicious.net",
    "therecipecritic.com", "gimmesomeoven.com", "cafedelites.com",
    "hostthetoast.com", "skinnytaste.com", "wellplated.com",
    "cookieandkate.com", "loveandlemons.com">>

skipPatterns ==
  <<"unsubscribe", "mailto:", "javascript:", "facebook.com", "twitter.com",
    "instagram.com", "pinterest.com", "youtube.com", "tiktok.com",
    "linkedin.com", "apple.com", "google.com/search", "amazon.com", ".css",
    ".js", ".png", ".jpg", ".gif", "privacy", "terms", "login", "signup",
    "cart", "checkout">>

recipeKeywords ==
  <<"recipe", "cook", "bake", "food", "dish", "meal", "ingredient">>

\* Array.prototype.includes on an array of strings.
ArrayIncludes(xs, x) == \E i \in 1..Len(xs) : xs[i] = x

\* Some pattern of ps is a substring of s.
AnyIncluded(s, ps) == \E i \in 1..Len(ps) : Includes(s, ps[i])

\* Characters the URL pattern's negated class excludes: white space and
\* < > " { } | \ ^ [ ] (the backquote, which the class also excludes, cannot
\* be written in a string of this module and occurs in no modelled body).
UrlStopChars ==
  {" ", "\t", "\n", "\r", "<", ">", "\"", "{", "}", "|", "\\", "^", "[", "]"}

\* Length of the scheme prefix http:// or https:// (case-insensitive) at i, or 0.
SchemeLenAt(s, i) ==
  IF i + 7 <= Len(s) /\ ToLowerCase(SubSeq(s, i, i + 7)) = "https://" THEN 8
  ELSE IF i + 6 <= Len(s) /\ ToLowerCase(SubSeq(s, i, i + 6)) = "http://" THEN 7
  ELSE 0

RECURSIVE MatchFrom(_, _)
MatchFrom(s, i) ==
  IF i > Len(s) THEN <<>>
  ELSE LET n == IF CharAt(s, i) \in {"h", "H"} THEN SchemeLenAt(s, i) ELSE 0
           e == IndexOfAny(s, UrlStopChars, i + n)
       IN IF n > 0 /\ e > i + n
          THEN <<SubSeq(s, i, e - 1)>> \o MatchFrom(s, e)
          ELSE MatchFrom(s, i + 1)

\* bodyText.match(URL_PATTERN) || []
URL_PATTERN(bodyText) == MatchFrom(bodyText, 1)

TrailingPunctuation == {".", ",", ";", ":", "!", "?", ")", "]"}

RECURSIVE CleanUrl(_)
\* url.replace(/[.,;:!?)\]]+$/, '')
CleanUrl(url) ==
  IF Len(url) > 0 /\ CharAt(url, Len(url)) \in TrailingPunctuation
  THEN CleanUrl(SubSeq(url, 1, Len(url) - 1))
  ELSE url

detectVideoPlatform(url) ==
  LET lowerUrl == ToLowerCase(url)
  IN IF Includes(lowerUrl, "tiktok.com") \/ Includes(lowerUrl, "vm.tiktok.com")
     THEN "tiktok"
     ELSE IF \/ Includes(lowerUrl, "instagram.com/reel/")
             \/ Includes(lowerUrl, "instagram.com/p/")
             \/ Includes(lowerUrl, "instagram.com/tv/")
     THEN "instagram"
     ELSE Null

(***************************************************************************)
(* new URL(url) for a string that starts with http:// or https:// (the     *)
(* only strings the URL pattern yields): the authority runs up to the      *)
(* first "/", "?" or "#"; the constructor throws on an empty host or on a  *)
(* port that is not a number; the pathname runs up to the first "?" or     *)
(* "#".                                                                    *)
(***************************************************************************)

RECURSIVE SkipSlashes(_, _)
SkipSlashes(s, i) ==
  IF i <= Len(s) /\ CharAt(s, i) = "/" THEN SkipSlashes(s, i + 1) ELSE i

\* The part of the URL after the scheme and the slashes that follow it.
AfterScheme(url) ==
  LET n == SchemeLenAt(url, 1) IN SubstringFrom(url, SkipSlashes(url, n + 1))

UrlAuthority(url) ==
  LET r == AfterScheme(url)
  IN SubSeq(r, 1, IndexOfAny(r, {"/", "?", "#"}, 1) - 1)

\* The authority without its userinfo.
UrlHostPort(url) ==
  LET parts == Split(UrlAuthority(url), "@") IN parts[Len(parts)]

Digits == {"0", "1", "2", "3", "4", "5", "6", "7", "8", "9"}

UrlConstructorThrows(url) ==
  LET hp == Split(UrlHostPort(url), ":")
  IN \/ Len(hp[1]) = 0
     \/ \E k \in 2..Len(hp) : \E i \in 1..Len(hp[k]) : CharAt(hp[k], i) \notin Digits

RECURSIVE RemoveDotSegments(_, _)
RemoveDotSegments(segs, acc) ==
  IF Len(segs) = 0 THEN acc
  ELSE IF Head(segs) = "." THEN RemoveDotSegments(Tail(segs), acc)
  ELSE IF Head(segs) = ".."
       THEN RemoveDotSegments(Tail(segs),
              IF Len(acc) = 0 THEN acc ELSE SubSeq(acc, 1, Len(acc) - 1))
  ELSE RemoveDotSegments(Tail(segs), Append(acc, Head(segs)))

\* new URL(url).pathname.split('/').filter(Boolean)
UrlPathParts(url) ==
  LET r    == AfterScheme(url)
      a    == IndexOfAny(r, {"/", "?", "#"}, 1)
      e    == IndexOfAny(r, {"?", "#"}, 1)
      path == IF a <= Len(r) /\ CharAt(r, a) = "/" THEN SubSeq(r, a, e - 1) ELSE "/"
      segs == RemoveDotSegments(Split(path, "/"), <<>>)
  IN SelectSeq(segs, LAMBDA x : Len(x) > 0)

\* The rules of isLikelyRecipeUrl that precede the URL constructor:
\* "reject", "accept", or "default" when none of them decides.
RecipeUrlRule(url) ==
  LET lowerUrl == ToLowerCase(url)
  IN IF AnyIncluded(lowerUrl, skipPatterns) THEN "reject"
     ELSE IF AnyIncluded(lowerUrl, RECIPE_DOMAINS) THEN "accept"
     ELSE IF AnyIncluded(lowerUrl, recipeKeywords) THEN "accept"
     ELSE "default"

\* isLikelyRecipeUrl raises the URL constructor's TypeError.
isLikelyRecipeUrlThrows(url) ==
  RecipeUrlRule(url) = "default" /\ UrlConstructorThrows(url)

isLikelyRecipeUrl(url) ==
  CASE RecipeUrlRule(url) = "reject" -> FALSE
    [] RecipeUrlRule(url) = "accept" -> TRUE
    [] OTHER -> Len(UrlPathParts(url)) >= 1

\* x || d for a string x that may be undefined.
OrElse(x, d) == IF x = Undef \/ x = "" THEN d ELSE x

\* The ArrayBuffer of an attachment's content (a string content is encoded).
ToArrayBuffer(content) == [kind |-> "bytes", id |-> content.id]

\* AttachmentStep with the media type compared as given (not lower-cased).
AttachmentStep_CaseSensitive(acc, attachment) ==
  LET mimeType == IF attachment.mimeType = Undef THEN "" ELSE attachment.mimeType
      content  == ToArrayBuffer(attachment.content)
      acc1 == IF ArrayIncludes(SUPPORTED_IMAGE_TYPES, mimeType)
              THEN [acc EXCEPT !.images = Append(@,
                     [type |-> "image", data |-> content, mimeType |-> mimeType,
                      filename |-> OrElse(attachment.filename, "image")])]
              ELSE acc
  IN IF mimeType = PDF_MIME_TYPE
     THEN [acc1 EXCEPT !.pdfs = Append(@,
            [type |-> "pdf", data |-> content, mimeType |-> mimeType,
             filename |-> OrElse(attachment.filename, "document.pdf")])]
     ELSE acc1

\* AttachmentStep with the attachment's file name taken as it is.
AttachmentStep_NoDefaultName(acc, attachment) ==
  LET mimeType == IF attachment.mimeType = Undef THEN ""
                  ELSE ToLowerCase(attachment.mimeType)
      content  == ToArrayBuffer(attachment.content)
      acc1 == IF ArrayIncludes(SUPPORTED_IMAGE_TYPES, mimeType)
              THEN [acc EXCEPT !.images = Append(@,
                     [type |-> "image", data |-> content, mimeType |-> mimeType,
                      filename |-> attachment.filename])]
              ELSE acc
  IN IF mimeType = PDF_MIME_TYPE
     THEN [acc1 EXCEPT !.pdfs = Append(@,
            [type |-> "pdf", data |-> content, mimeType |-> mimeType,
             filename |-> attachment.filename])]
     ELSE acc1

\* One iteration of the attachment loop: acc holds images and pdfs.
AttachmentStep(acc, attachment) ==
  LET mimeType == IF attachment.mimeType = Undef THEN ""
                  ELSE ToLowerCase(attachment.mimeType)
      content  == ToArrayBuffer(attachment.content)
      acc1 == IF ArrayIncludes(SUPPORTED_IMAGE_TYPES, mimeType)
              THEN [acc EXCEPT !.images = Append(@,
                     [type |-> "image", data |-> content, mimeType |-> mimeType,
                      filename |-> OrElse(attachment.filename, "image")])]
              ELSE acc
  IN IF mimeType = PDF_MIME_TYPE
     THEN [acc1 EXCEPT !.pdfs = Append(@,
            [type |-> "pdf", data |-> content, mimeType |-> mimeType,
             filename |-> OrElse(attachment.filename, "document.pdf")])]
     ELSE acc1

\* UrlStep with the recipe filter applied before platform detection.
UrlStep_FilterFirst(acc, url) ==
  LET cleanUrl      == CleanUrl(url)
      videoPlatform == detectVideoPlatform(cleanUrl)
      acc1          == [acc EXCEPT !.seenUrls = @ \cup {cleanUrl}]
  IN IF cleanUrl \in acc.seenUrls THEN acc
     ELSE IF isLikelyRecipeUrlThrows(cleanUrl)
     THEN [acc1 EXCEPT !.threw = TRUE, !.error = "TypeError: Invalid URL"]
     ELSE IF ~isLikelyRecipeUrl(cleanUrl) THEN acc1
     ELSE IF videoPlatform # Null
     THEN [acc1 EXCEPT !.videos = Append(@,
            [type |-> "video", data |-> cleanUrl, platform |-> videoPlatform])]
     ELSE [acc1 EXCEPT !.urls = Append(@, [type |-> "url", data |-> cleanUrl])]

\* UrlStep with the seen-set keyed by the URL as matched (before cleanup).
UrlStep_DedupRaw(acc, url) ==
  LET cleanUrl      == CleanUrl(url)
      videoPlatform == detectVideoPlatform(cleanUrl)
      acc1          == [acc EXCEPT !.seenUrls = @ \cup {url}]
  IN IF url \in acc.seenUrls THEN acc
     ELSE IF videoPlatform # Null
     THEN [acc1 EXCEPT !.videos = Append(@,
            [type |-> "video", data |-> cleanUrl, platform |-> videoPlatform])]
     ELSE IF isLikelyRecipeUrlThrows(cleanUrl)
     THEN [acc1 EXCEPT !.threw = TRUE, !.error = "TypeError: Invalid URL"]
     ELSE IF isLikelyRecipeUrl(cleanUrl)
     THEN [acc1 EXCEPT !.urls = Append(@, [type |-> "url", data |-> cleanUrl])]
     ELSE acc1

\* One iteration of the URL loop: acc holds seenUrls, urls, videos and whether
\* the iteration threw.
UrlStep(acc, url) ==
  LET cleanUrl      == CleanUrl(url)
      videoPlatform == detectVideoPlatform(cleanUrl)
      acc1          == [acc EXCEPT !.seenUrls = @ \cup {cleanUrl}]
  IN IF cleanUrl \in acc.seenUrls THEN acc
     ELSE IF videoPlatform # Null
     THEN [acc1 EXCEPT !.videos = Append(@,
            [type |-> "video", data |-> cleanUrl, platform |-> videoPlatform])]
     ELSE IF isLikelyRecipeUrlThrows(cleanUrl)
     THEN [acc1 EXCEPT !.threw = TRUE, !.error = "TypeError: Invalid URL"]
     ELSE IF isLikelyRecipeUrl(cleanUrl)
     THEN [acc1 EXCEPT !.urls = Append(@, [type |-> "url", data |-> cleanUrl])]
     ELSE acc1

RECURSIVE AttachmentLoop(_, _)
AttachmentLoop(acc, attachments) ==
  IF Len(attachments) = 0 THEN acc
  ELSE AttachmentLoop(AttachmentStep(acc, Head(attachments)), Tail(attachments))

RECURSIVE UrlLoop(_, _)
UrlLoop(acc, foundUrls) ==
  IF Len(foundUrls) = 0 \/ acc.threw THEN acc
  ELSE UrlLoop(UrlStep(acc, Head(foundUrls)), Tail(foundUrls))

EmptyContent ==
  [threw |-> FALSE, error |-> "", images |-> <<>>, pdfs |-> <<>>, urls |-> <<>>,
   videos |-> <<>>, seenUrls |-> {}]

\* parseEmailContent: the locals at the point where it returns or throws.
\* A message PostalMime cannot parse makes it throw before any local is filled.
parseEmailContent(email) ==
  IF email.malformed
  THEN [EmptyContent EXCEPT !.threw = TRUE, !.error = "Error: malformed message"]
  ELSE LET bodyText  == email.text \o " " \o email.html
           foundUrls == URL_PATTERN(bodyText)
       IN UrlLoop(AttachmentLoop(EmptyContent, email.attachments), foundUrls)

(***************************************************************************)
(* Inputs of the ingestion parser.                                         *)
(***************************************************************************)

MaxAttachments == 3

MaxBodyUrls == 3

SeqsUpTo(S, n) == UNION {[1..k -> S] : k \in 0..n}

Range(xs) == {xs[i] : i \in 1..Len(xs)}

\* Attachments as PostalMime reports them: media type, file name, content.
AttachmentPool ==
  <<[mimeType |-> "image/jpeg",      filename |-> "page1.jpg", kind |-> "bytes"],
    [mimeType |-> "IMAGE/PNG",       filename |-> Undef,       kind |-> "bytes"],
    [mimeType |-> "image/heif",      filename |-> "",          kind |-> "string"],
    [mimeType |-> "application/pdf", filename |-> "book.pdf",  kind |-> "bytes"],
    [mimeType |-> "Application/PDF", filename |-> Undef,       kind |-> "string"],
    [mimeType |-> "text/plain",      filename |-> "note.txt",  kind |-> "string"],
    [mimeType |-> "image/svg+xml",   filename |-> "logo.svg",  kind |-> "bytes"],
    [mimeType |-> Undef,             filename |-> Undef,       kind |-> "bytes"]>>

\* The attachment list picked by ks; the content of the k-th attachment is
\* identified by k.
Attachments(ks) ==
  [k \in 1..Len(ks) |->
     [mimeType |-> AttachmentPool[ks[k]].mimeType,
      filename |-> AttachmentPool[ks[k]].filename,
      content  |-> [kind |-> AttachmentPool[ks[k]].kind, id |-> k]]]

\* Pieces of body text: URLs with and without trailing punctuation.
BodyPieces ==
  <<"https://www.allrecipes.com/recipe/1",
    "https://www.allrecipes.com/recipe/1).",
    "(https://www.TikTok.com/@chef/video/7?recipe=1)",
    "https://www.instagram.com/reel/abc/recipe,",
    "https://www.instagram.com/chef",
    "https://example.com/",
    "https://blog.example.com/post/42;",
    "https://...">>

HtmlPool ==
  {"", "<a href=\"https://blog.example.com/post/42\">post</a>"}

BodyText(ks) == Join([k \in 1..Len(ks) |-> BodyPieces[ks[k]]], " ")

ParseInputs ==
  {[malformed |-> FALSE, attachments |-> Attachments(ks), text |-> "", html |-> ""] :
     ks \in SeqsUpTo(1..Len(AttachmentPool), MaxAttachments)}
  \cup
  {[malformed |-> FALSE, attachments |-> <<>>, text |-> BodyText(ks), html |-> ""] :
     ks \in SeqsUpTo(1..Len(BodyPieces), MaxBodyUrls)}
  \cup
  {[malformed |-> m, attachments |-> Attachments(<<1, 4>>), text |-> BodyText(<<1, 3>>),
    html |-> h] : m \in BOOLEAN, h \in HtmlPool}

NoRequest == [kind |-> "none"]

NoOutput == [none |-> TRUE]

NoCtx == [none |-> TRUE]

HandlerIdle ==
  /\ req = NoRequest
  /\ parsed = EmptyContent
  /\ item = 0
  /\ stage = ""
  /\ ctx = NoCtx
  /\ results = <<>>
  /\ calls = <<>>
  /\ thrown = Undef

(***************************************************************************)
(* SpecParse: parseEmailContent applied to one message.                    *)
(***************************************************************************)

InitParse ==
  /\ HandlerIdle
  /\ pc = "parseEmailContent"
  /\ fin \in ParseInputs
  /\ fout = NoOutput

ParseApply ==
  /\ pc = "parseEmailContent"
  /\ LET r == parseEmailContent(fin)
     IN /\ fout' = r
        /\ pc' = IF r.threw THEN "threw" ELSE "returned"
  /\ UNCHANGED <<handlerVars, fin>>

NextParse == ParseApply

SpecParse == InitParse /\ [][NextParse]_vars

(***************************************************************************)
(* Properties of parseEmailContent (checked under SpecParse).              *)
(***************************************************************************)

ParseEnded == pc \in {"returned", "threw"}

\* The URL matches of the message body, in body order, and their cleaned forms.
FoundUrls == IF fin.malformed THEN <<>> ELSE URL_PATTERN(fin.text \o " " \o fin.html)

CleanedUrls == [k \in 1..Len(FoundUrls) |-> CleanUrl(FoundUrls[k])]

Count(xs, P(_)) == Cardinality({i \in 1..Len(xs) : P(xs[i])})

FirstIndex(xs, x) == CHOOSE k \in 1..Len(xs) : xs[k] = x /\ \A j \in 1..(k - 1) : xs[j] # x

\* C6: a cleaned URL that video-platform detection matches is in the videos
\* bucket with the detected platform tag and never in the urls bucket, also
\* when it holds a recipe keyword or a recipe-site domain; no cleaned URL is
\* in both buckets; on return every URL match of the body has been classified.
C6_VideoWins ==
  ParseEnded =>
    /\ \A u \in fout.seenUrls :
         detectVideoPlatform(u) # Null =>
           /\ \E i \in 1..Len(fout.videos) :
                fout.videos[i].data = u /\ fout.videos[i].platform = detectVideoPlatform(u)
           /\ \A i \in 1..Len(fout.urls) : fout.urls[i].data # u
    /\ \A i \in 1..Len(fout.urls) : \A j \in 1..Len(fout.videos) :
         fout.urls[i].data # fout.videos[j].data
    /\ \A j \in 1..Len(fout.videos) :
         detectVideoPlatform(fout.videos[j].data) = fout.videos[j].platform
    /\ pc = "returned" => \A k \in 1..Len(CleanedUrls) : CleanedUrls[k] \in fout.seenUrls

\* A message with a video URL that also holds a recipe keyword, and a recipe URL.
C6_Witness ==
  /\ pc = "returned"
  /\ \E j \in 1..Len(fout.videos) :
       Includes(ToLowerCase(fout.videos[j].data), "recipe")
  /\ Len(fout.urls) > 0

\* C7: matches that are identical after trailing-punctuation cleanup collapse
\* to one candidate: over the urls and videos buckets together each cleaned
\* URL appears at most once, each bucket is in order of first occurrence in
\* the body, and on return every cleaned URL that classifies as a video or a
\* recipe candidate appears exactly once.
C7_Dedup ==
  ParseEnded =>
    LET all == fout.urls \o fout.videos
        InOrder(b) ==
          /\ \A i \in 1..Len(b) : b[i].data \in Range(CleanedUrls)
          /\ \A i \in 1..Len(b) : \A j \in (i + 1)..Len(b) :
               FirstIndex(CleanedUrls, b[i].data) < FirstIndex(CleanedUrls, b[j].data)
    IN /\ \A i \in 1..Len(all) : \A j \in (i + 1)..Len(all) : all[i].data # all[j].data
       /\ InOrder(fout.urls)
       /\ InOrder(fout.videos)
       /\ pc = "returned" =>
            \A k \in 1..Len(CleanedUrls) :
              (detectVideoPlatform(CleanedUrls[k]) # Null \/ isLikelyRecipeUrl(CleanedUrls[k]))
                => Count(all, LAMBDA it : it.data = CleanedUrls[k]) = 1

\* A body where two different matches clean to the same URL, which is kept, and
\* a bucket holds two items.
C7_Witness ==
  /\ pc = "returned"
  /\ \E k \in 1..Len(FoundUrls) : \E l \in (k + 1)..Len(FoundUrls) :
       /\ FoundUrls[k] # FoundUrls[l]
       /\ CleanedUrls[k] = CleanedUrls[l]
       /\ \E i \in 1..Len(fout.urls) : fout.urls[i].data = CleanedUrls[k]
  /\ Len(fout.urls) >= 2

LowerMimeType(attachment) ==
  IF attachment.mimeType = Undef THEN "" ELSE ToLowerCase(attachment.mimeType)

\* C8: each attachment whose lower-cased media type is in the image allow-list
\* yields exactly one image item, each application/pdf attachment exactly one
\* pdf item, every other attachment no item and no error; no attachment is in
\* both buckets and each bucket keeps attachment order.
C8_Attachments ==
  (ParseEnded /\ ~fin.malformed) =>
    /\ \A k \in 1..Len(fin.attachments) :
         LET m    == LowerMimeType(fin.attachments[k])
             nImg == Count(fout.images, LAMBDA it : it.data.id = k)
             nPdf == Count(fout.pdfs, LAMBDA it : it.data.id = k)
         IN /\ nImg = (IF m \in Range(SUPPORTED_IMAGE_TYPES) THEN 1 ELSE 0)
            /\ nPdf = (IF m = "application/pdf" THEN 1 ELSE 0)
            /\ nImg + nPdf <= 1
    /\ \A i \in 1..Len(fout.images) :
         /\ fout.images[i].type = "image"
         /\ \A j \in (i + 1)..Len(fout.images) : fout.images[i].data.id < fout.images[j].data.id
    /\ \A i \in 1..Len(fout.pdfs) :
         /\ fout.pdfs[i].type = "pdf"
         /\ \A j \in (i + 1)..Len(fout.pdfs) : fout.pdfs[i].data.id < fout.pdfs[j].data.id
    /\ Len(FoundUrls) = 0 => pc = "returned"

\* A message with an image whose media type is not in lower case, a PDF and an
\* attachment of an unlisted type.
C8_Witness ==
  /\ pc = "returned"
  /\ \E i \in 1..Len(fout.images) :
       fin.attachments[fout.images[i].data.id].mimeType # fout.images[i].mimeType
  /\ Len(fout.pdfs) > 0
  /\ Len(fout.images) + Len(fout.pdfs) < Len(fin.attachments)

(***************************************************************************)
(* claude.ts: formatDuration.                                              *)
(***************************************************************************)

Digits09 == "0123456789"

DigitValue(c) == (CHOOSE i \in 1..10 : CharAt(Digits09, i) = c) - 1

RECURSIVE parseInt(_)
\* parseInt of a non-empty string of decimal digits.
parseInt(ds) ==
  IF Len(ds) = 0 THEN 0
  ELSE 10 * parseInt(SubSeq(ds, 1, Len(ds) - 1)) + DigitValue(CharAt(ds, Len(ds)))

\* Index of the first occurrence of p in s, 0 when there is none.
IndexOf(s, p) ==
  IF Includes(s, p)
  THEN CHOOSE i \in 1..(Len(s) - Len(p) + 1) :
         /\ SubSeq(s, i, i + Len(p) - 1) = p
         /\ \A j \in 1..(i - 1) : SubSeq(s, j, j + Len(p) - 1) # p
  ELSE 0

RECURSIVE DigitRunEnd(_, _)
\* Index after the longest run of digits of s that starts at i.
DigitRunEnd(s, i) ==
  IF i <= Len(s) /\ CharAt(s, i) \in Digits THEN DigitRunEnd(s, i + 1) ELSE i

\* The optional group (?:(\d+)X) tried at index i: whether it matched, the
\* digits it captured and the index after it.
DurationGroup(s, i, unit) ==
  LET e == DigitRunEnd(s, i)
  IN IF e > i /\ e <= Len(s) /\ CharAt(s, e) = unit
     THEN [matched |-> TRUE, digits |-> SubSeq(s, i, e - 1), next |-> e + 1]
     ELSE [matched |-> FALSE, digits |-> "", next |-> i]

\* formatDuration with the plural chosen for every hour count.
formatDuration_AlwaysPlural(duration) ==
  IF duration = Undef \/ duration = "" THEN ""
  ELSE LET k == IndexOf(duration, "PT")
           h == DurationGroup(duration, k + 2, "H")
           m == DurationGroup(duration, h.next, "M")
           hours   == IF h.matched THEN parseInt(h.digits) ELSE 0
           minutes == IF m.matched THEN parseInt(m.digits) ELSE 0
       IN IF k = 0 THEN duration
          ELSE IF hours # 0 /\ minutes # 0
          THEN ToString(hours) \o " hours " \o ToString(minutes) \o " min"
          ELSE IF hours # 0 THEN ToString(hours) \o " hours"
          ELSE IF minutes # 0 THEN ToString(minutes) \o " min"
          ELSE ""

formatDuration(duration) ==
  IF duration = Undef \/ duration = "" THEN ""
  ELSE LET k == IndexOf(duration, "PT")
           h == DurationGroup(duration, k + 2, "H")
           m == DurationGroup(duration, h.next, "M")
           hours   == IF h.matched THEN parseInt(h.digits) ELSE 0
           minutes == IF m.matched THEN parseInt(m.digits) ELSE 0
       IN IF k = 0 THEN duration
          ELSE IF hours # 0 /\ minutes # 0
          THEN ToString(hours) \o " hour" \o (IF hours > 1 THEN "s" ELSE "") \o " "
                 \o ToString(minutes) \o " min"
          ELSE IF hours # 0
          THEN ToString(hours) \o " hour" \o (IF hours > 1 THEN "s" ELSE "")
          ELSE IF minutes # 0 THEN ToString(minutes) \o " min"
          ELSE ""

MaxDurationLen == 4

DurationAlphabet == {"P", "T", "H", "M", "0", "1", "2", "x"}

DurationExamples ==
  {"PT1H30M", "PT45M", "PT2H", "PT1H", "PT0H30M", "PT1H0M", "PT01H05M",
   "30 minutes", "1 hour", "P1DT2H", "about PT20M or so"}

StringOf(cs) == Join(cs, "")

DurationInputs ==
  {Undef} \cup DurationExamples
    \cup {StringOf(cs) : cs \in SeqsUpTo(DurationAlphabet, MaxDurationLen)}

(***************************************************************************)
(* SpecDuration: formatDuration applied to one value.                      *)
(***************************************************************************)

InitDuration ==
  /\ HandlerIdle
  /\ pc = "formatDuration"
  /\ fin \in DurationInputs
  /\ fout = NoOutput

FormatDurationApply ==
  /\ pc = "formatDuration"
  /\ fout' = formatDuration(fin)
  /\ pc' = "returned"
  /\ UNCHANGED <<handlerVars, fin>>

NextDuration == FormatDurationApply

SpecDuration == InitDuration /\ [][NextDuration]_vars

AllDigits(s) == Len(s) > 0 /\ \A i \in 1..Len(s) : CharAt(s, i) \in Digits

\* The string s is <digits><unit>.
IsComponent(s, unit) ==
  Len(s) >= 2 /\ AllDigits(SubSeq(s, 1, Len(s) - 1)) /\ CharAt(s, Len(s)) = unit

ComponentValue(s) == IF s = "" THEN 0 ELSE parseInt(SubSeq(s, 1, Len(s) - 1))

\* d is in PT hour/minute notation: PT, then optionally <digits>H, then
\* optionally <digits>M, and nothing else.
PTNotation(d) ==
  /\ Len(d) >= 2
  /\ SubSeq(d, 1, 2) = "PT"
  /\ \E i \in 3..(Len(d) + 1) :
       /\ i = 3 \/ IsComponent(SubSeq(d, 3, i - 1), "H")
       /\ i = Len(d) + 1 \/ IsComponent(SubSeq(d, i, Len(d)), "M")

\* The hour and minute parts of a string in PT notation.
PTParts(d) ==
  LET i == CHOOSE i \in 3..(Len(d) + 1) :
             /\ i = 3 \/ IsComponent(SubSeq(d, 3, i - 1), "H")
             /\ i = Len(d) + 1 \/ IsComponent(SubSeq(d, i, Len(d)), "M")
  IN [h |-> SubSeq(d, 3, i - 1), m |-> SubSeq(d, i, Len(d))]

HourWord(n) == IF n = 1 THEN " hour" ELSE " hours"

\* The rendering of h hours and m minutes, a component of 0 counting as absent.
Rendered(h, m) ==
  IF h > 0 /\ m > 0 THEN ToString(h) \o HourWord(h) \o " " \o ToString(m) \o " min"
  ELSE IF h > 0 THEN ToString(h) \o HourWord(h)
  ELSE IF m > 0 THEN ToString(m) \o " min"
  ELSE ""

\* The rendering the claim gives: "H hour(s) M min" when both components are
\* present, "H hour(s)" when only hours, "M min" when only minutes.
RenderedByPresence(parts) ==
  LET h == ComponentValue(parts.h)
      m == ComponentValue(parts.m)
  IN IF parts.h # "" /\ parts.m # "" THEN ToString(h) \o HourWord(h) \o " " \o ToString(m) \o " min"
     ELSE IF parts.h # "" THEN ToString(h) \o HourWord(h)
     ELSE IF parts.m # "" THEN ToString(m) \o " min"
     ELSE ""

\* C10 as stated: a duration in PT hour/minute notation is rendered by the
\* presence of its components, and every absent, empty or malformed input
\* gives the empty string.
C10_Original ==
  pc = "returned" =>
    IF fin # Undef /\ PTNotation(fin)
    THEN fout = RenderedByPresence(PTParts(fin))
    ELSE fout = ""

\* The part of s after its first "PT".
AfterFirstPT(s) == SubstringFrom(s, IndexOf(s, "PT") + 2)

\* The <digits><unit> component that s starts with, "" when it starts with none.
LeadingComponent(s, unit) ==
  IF \E e \in 2..Len(s) : IsComponent(SubSeq(s, 1, e), unit)
  THEN SubSeq(s, 1, CHOOSE e \in 2..Len(s) : IsComponent(SubSeq(s, 1, e), unit))
  ELSE ""

\* C10 amended: an absent or empty input gives ""; a string without "PT" is
\* returned unchanged; any other string is rendered from the <digits>H and
\* <digits>M components that directly follow its first "PT", a component that
\* is missing or zero counting as absent: "H hour(s) M min", "H hour(s)",
\* "M min" or "", with the singular "hour" only for H = 1.
C10_FormatDuration ==
  pc = "returned" =>
    /\ (fin = Undef \/ fin = "") => fout = ""
    /\ (fin # Undef /\ fin # "" /\ ~Includes(fin, "PT")) => fout = fin
    /\ (fin # Undef /\ Includes(fin, "PT")) =>
         LET rest == AfterFirstPT(fin)
             h    == LeadingComponent(rest, "H")
             m    == LeadingComponent(SubstringFrom(rest, Len(h) + 1), "M")
         IN fout = Rendered(ComponentValue(h), ComponentValue(m))
    /\ fin = "PT1H30M" => fout = "1 hour 30 min"
    /\ fin = "PT45M" => fout = "45 min"
    /\ fin = "PT2H" => fout = "2 hours"

\* The two-component rendering of the first example, reached.
C10_Witness ==
  /\ pc = "returned"
  /\ fin = "PT1H30M"
  /\ fout = "1 hour 30 min"

(***************************************************************************)
(* JavaScript values, as JSON.parse yields them: each value is tagged with *)
(* its type.                                                               *)
(***************************************************************************)

JUndef == [t |-> "undefined"]

JNull == [t |-> "null"]

S(x) == [t |-> "string", s |-> x]

N(x) == [t |-> "number", n |-> x]

B(x) == [t |-> "boolean", b |-> x]

Arr(xs) == [t |-> "array", a |-> xs]

\* An object; f is a record of its properties.
Obj(f) == [t |-> "object", f |-> f]

IsString(v) == v.t = "string"

IsArray(v) == v.t = "array"

\* ToBoolean.
Truthy(v) ==
  CASE v.t \in {"undefined", "null"} -> FALSE
    [] v.t = "string" -> v.s # ""
    [] v.t = "number" -> v.n # 0
    [] v.t = "boolean" -> v.b
    [] OTHER -> TRUE

\* a || b
Or(a, b) == IF Truthy(a) THEN a ELSE b

\* Reading a property of null or undefined throws a TypeError.
GetThrows(v) == v.t \in {"undefined", "null"}

\* v[key] for a v that is neither null nor undefined; the keys read by the
\* code are own properties of objects only.
Get(v, key) ==
  IF v.t = "object" /\ key \in DOMAIN v.f THEN v.f[key] ELSE JUndef

\* xs[i] of an array, 0-based.
At(v, i) == IF i + 1 <= Len(v.a) THEN v.a[i + 1] ELSE JUndef

RECURSIVE JsString(_)
\* String(v), also the conversion of a template literal.
JsString(v) ==
  CASE v.t = "string" -> v.s
    [] v.t = "number" -> ToString(v.n)
    [] v.t = "boolean" -> IF v.b THEN "true" ELSE "false"
    [] v.t = "null" -> "null"
    [] v.t = "undefined" -> "undefined"
    [] v.t = "array" ->
         Join([i \in 1..Len(v.a) |->
                 IF v.a[i].t \in {"null", "undefined"} THEN "" ELSE JsString(v.a[i])], ",")
    [] OTHER -> "[object Object]"

\* Array.prototype.join(sep).
JsJoin(v, sep) ==
  Join([i \in 1..Len(v.a) |->
          IF v.a[i].t \in {"null", "undefined"} THEN "" ELSE JsString(v.a[i])], sep)

(***************************************************************************)
(* claude.ts: extractRecipeFromJsonLd.  A result is a recipe, null, or a   *)
(* thrown error.                                                           *)
(***************************************************************************)

Found(r) == [kind |-> "recipe", recipe |-> r]

NotFound == [kind |-> "null"]

Threw(msg) == [kind |-> "throw", error |-> msg]

TypeErrorNull == "TypeError: Cannot read properties of null"

TypeErrorMatch == "TypeError: duration.match is not a function"

\* The type test of a node: obj['@type'] is 'Recipe' or an array including it.
isRecipe(obj) ==
  LET type == Get(obj, "@type")
  IN \/ type = S("Recipe")
     \/ (IsArray(type) /\ \E i \in 1..Len(type.a) : type.a[i] = S("Recipe"))

\* One entry of recipeInstructions, numbered idx + 1; a null entry throws.
StepThrows(step) == ~IsString(step) /\ GetThrows(step)

\* StepLine numbered from idx, not from idx + 1.
StepLine_ZeroBased(step, idx) ==
  IF IsString(step) THEN ToString(idx) \o ". " \o step.s
  ELSE ToString(idx) \o ". "
         \o JsString(Or(Or(Get(step, "text"), Get(step, "name")), S("")))

StepLine(step, idx) ==
  IF IsString(step) THEN ToString(idx + 1) \o ". " \o step.s
  ELSE ToString(idx + 1) \o ". "
         \o JsString(Or(Or(Get(step, "text"), Get(step, "name")), S("")))

\* formatDuration(obj.prepTime as string): a truthy value that is not a string
\* has no match method.
DurationThrows(v) == Truthy(v) /\ ~IsString(v)

DurationOf(v) == IF Truthy(v) THEN formatDuration(v.s) ELSE ""

\* The image URL, in the shapes the code accepts.
ImageOf(image) ==
  IF ~Truthy(image) THEN S("")
  ELSE IF IsString(image) THEN image
  ELSE IF IsArray(image)
       THEN IF IsString(At(image, 0)) THEN At(image, 0)
            ELSE IF GetThrows(At(image, 0)) THEN S("")
            ELSE Or(Get(At(image, 0), "url"), S(""))
  ELSE Or(Get(image, "url"), S(""))

\* The source, from the author in the shapes the code accepts.
SourceOf(author) ==
  IF ~Truthy(author) THEN S("")
  ELSE IF IsString(author) THEN author
  ELSE IF IsArray(author)
       THEN IF GetThrows(At(author, 0)) THEN S("")
            ELSE Or(Get(At(author, 0), "name"), S(""))
  ELSE Or(Get(author, "name"), S(""))

\* The fields of a Recipe-tagged node (lines 401-469).
RecipeFields(obj, sourceUrl) ==
  LET name    == JsString(Or(Get(obj, "name"), S("")))
      ri      == Get(obj, "recipeIngredient")
      rs      == Get(obj, "recipeInstructions")
      ry      == Get(obj, "recipeYield")
  IN IF name = "" THEN NotFound
     ELSE IF IsArray(rs) /\ \E i \in 1..Len(rs.a) : StepThrows(rs.a[i])
     THEN Threw(TypeErrorNull)
     ELSE IF DurationThrows(Get(obj, "prepTime")) \/ DurationThrows(Get(obj, "cookTime"))
     THEN Threw(TypeErrorMatch)
     ELSE Found(
       [name        |-> S(name),
        ingredients |-> S(IF IsArray(ri) THEN JsJoin(ri, "\n") ELSE ""),
        directions  |-> S(IF IsArray(rs)
                          THEN Join([i \in 1..Len(rs.a) |-> StepLine(rs.a[i], i - 1)], "\n")
                          ELSE ""),
        prep_time   |-> S(DurationOf(Get(obj, "prepTime"))),
        cook_time   |-> S(DurationOf(Get(obj, "cookTime"))),
        servings    |-> S(IF ~Truthy(ry) THEN ""
                          ELSE IF IsArray(ry) THEN JsString(At(ry, 0))
                          ELSE JsString(ry)),
        source      |-> SourceOf(Get(obj, "author")),
        source_url  |-> S(sourceUrl),
        notes       |-> S(""),
        image_url   |-> ImageOf(Get(obj, "image"))])

\* A result the array loop and the block loop accept: a recipe whose name is
\* not the placeholder.
Usable(r) == r.kind = "recipe" /\ r.recipe.name # S("NO_RECIPE")

RECURSIVE extractRecipeFromJsonLd(_, _)
RECURSIVE JsonLdArrayLoop(_, _, _)

\* The loop over an array's items, from item i on (lines 379-383).
JsonLdArrayLoop(items, i, sourceUrl) ==
  IF i > Len(items) THEN NotFound
  ELSE LET recipe == extractRecipeFromJsonLd(items[i], sourceUrl)
       IN IF recipe.kind = "throw" THEN recipe
          ELSE IF Usable(recipe) THEN recipe
          ELSE JsonLdArrayLoop(items, i + 1, sourceUrl)

extractRecipeFromJsonLd(data, sourceUrl) ==
  IF IsArray(data) THEN JsonLdArrayLoop(data.a, 1, sourceUrl)
  ELSE IF GetThrows(data) THEN Threw(TypeErrorNull)
  ELSE IF ~isRecipe(data)
       THEN IF Truthy(Get(data, "@graph"))
            THEN extractRecipeFromJsonLd(Get(data, "@graph"), sourceUrl)
            ELSE NotFound
  ELSE RecipeFields(data, sourceUrl)

(***************************************************************************)
(* Inputs of the JSON-LD walk: nodes, arrays of nodes and graph wrappers.  *)
(***************************************************************************)

MaxGraphLen == 3

PageUrl == "https://blog.example.com/post/42"

\* An object with an @type property.
Typed(type, f) == Obj(("@type" :> type) @@ f)

\* A graph wrapper: an object with only an @graph property.
Graph(v) == Obj("@graph" :> v)

PieNode ==
  Typed(S("Recipe"),
    [name |-> S("Pie"),
     recipeIngredient |-> Arr(<<S("2 apples"), S("1 crust")>>),
     recipeInstructions |-> Arr(<<S("Peel."), Obj([text |-> S("Bake.")])>>),
     prepTime |-> S("PT1H30M"),
     recipeYield |-> Arr(<<S("8")>>),
     image |-> Arr(<<Obj([url |-> S("https://img.example.com/pie.jpg")])>>),
     author |-> Obj([name |-> S("Ann")])])

\* A Recipe node tagged through a type list, with ingredients only.
SoupNode ==
  Typed(Arr(<<S("Thing"), S("Recipe")>>),
    [name |-> S("Soup"), recipeIngredient |-> Arr(<<S("1 leek")>>)])

\* A Recipe node that carries the placeholder name.
PlaceholderNode == Typed(S("Recipe"), [name |-> S("NO_RECIPE")])

\* A Recipe node without a name.
NamelessNode == Typed(S("Recipe"), [recipeIngredient |-> Arr(<<S("salt")>>)])

\* A node of another type.
SiteNode == Typed(S("WebSite"), [name |-> S("Example Blog")])

ElementPool ==
  <<PieNode, SoupNode, PlaceholderNode, NamelessNode, SiteNode, S("text"), JNull,
    Graph(Arr(<<SiteNode, SoupNode>>))>>

NodeArrays ==
  {Arr([k \in 1..Len(ks) |-> ElementPool[ks[k]]]) :
     ks \in SeqsUpTo(1..Len(ElementPool), MaxGraphLen)}

MaxSteps == 3

\* Entries of recipeInstructions: plain strings, one of them numbered in
\* the source, and step objects with a text, a name or both.
StepPool ==
  <<S("Peel."), S("3. Bake."), Obj([text |-> S("Mix.")]), Obj([name |-> S("Serve.")]),
    Typed(S("HowToStep"), [text |-> S("Rest."), name |-> S("Resting")])>>

IngredientLists == {<<>>, <<S("2 apples")>>, <<S("1 crust"), S("2 apples")>>}

\* Recipe nodes with every list of at most MaxSteps instructions.
StepNodes ==
  {Typed(S("Recipe"),
     [name |-> S("Pie"), recipeIngredient |-> Arr(ings),
      recipeInstructions |-> Arr([k \in 1..Len(ks) |-> StepPool[ks[k]]])]) :
     ks \in SeqsUpTo(1..Len(StepPool), MaxSteps), ings \in IngredientLists}

JsonLdInputs ==
  Range(ElementPool) \cup NodeArrays \cup {Graph(a) : a \in NodeArrays} \cup StepNodes

(***************************************************************************)
(* SpecJsonLd: extractRecipeFromJsonLd applied to one parsed block.        *)
(***************************************************************************)

InitJsonLd ==
  /\ HandlerIdle
  /\ pc = "extractRecipeFromJsonLd"
  /\ fin \in JsonLdInputs
  /\ fout = NoOutput

JsonLdApply ==
  /\ pc = "extractRecipeFromJsonLd"
  /\ LET r == extractRecipeFromJsonLd(fin, PageUrl)
     IN /\ fout' = r
        /\ pc' = IF r.kind = "throw" THEN "threw" ELSE "returned"
  /\ UNCHANGED <<handlerVars, fin>>

NextJsonLd == JsonLdApply

SpecJsonLd == InitJsonLd /\ [][NextJsonLd]_vars

\* The array an input resolves through: the input itself, or the @graph of an
\* object without a Recipe tag.
IsGraphArray(v) == v.t = "object" /\ ~isRecipe(v) /\ IsArray(Get(v, "@graph"))

ResolvedArray(v) == IF IsArray(v) THEN v.a ELSE Get(v, "@graph").a

\* The element resolves to a recipe with a non-placeholder name.
ResolvesToRecipe(e) == Usable(extractRecipeFromJsonLd(e, PageUrl))

JsonLdEnded == pc \in {"returned", "threw"}

\* C9: an array, bare or graph-wrapped, resolves to the first element, in
\* array order, that resolves to a recipe with a non-placeholder name; for
\* @graph = [A, R], A a non-Recipe node and R a named Recipe node, the result
\* is R's data.
C9_FirstUsable ==
  (JsonLdEnded /\ (IsArray(fin) \/ IsGraphArray(fin))) =>
    LET arr == ResolvedArray(fin)
    IN /\ \A i \in 1..Len(arr) :
            (ResolvesToRecipe(arr[i]) /\ \A j \in 1..(i - 1) : ~ResolvesToRecipe(arr[j]))
              => fout = extractRecipeFromJsonLd(arr[i], PageUrl)
       /\ fin = Graph(Arr(<<SiteNode, PieNode>>)) =>
            /\ fout.kind = "recipe"
            /\ fout.recipe.name = S("Pie")
            /\ fout.recipe.ingredients = S("2 apples\n1 crust")
            /\ fout.recipe.directions = S("1. Peel.\n2. Bake.")

\* C9 restricted to arrays in which no element before the first usable one is
\* null (holds; not the claim).
C9_WithoutNullElements ==
  (JsonLdEnded /\ (IsArray(fin) \/ IsGraphArray(fin))) =>
    LET arr == ResolvedArray(fin)
    IN \A i \in 1..Len(arr) :
         (/\ ResolvesToRecipe(arr[i])
          /\ \A j \in 1..(i - 1) : ~ResolvesToRecipe(arr[j]) /\ arr[j] # JNull)
           => fout = extractRecipeFromJsonLd(arr[i], PageUrl)

(***************************************************************************)
(* claude.ts: the generative service's reply and its parsing.  The text of *)
(* a reply is a sequence of segments: prose (non-blank text that is not    *)
(* JSON and holds no brace or bracket) and JSON texts, each given by the   *)
(* value it denotes.  JSON.parse succeeds on a text that is one JSON       *)
(* segment; a regular expression's match is the span from the first        *)
(* opening to the last closing delimiter.                                  *)
(***************************************************************************)

Prose(s) == [k |-> "prose", s |-> s]

Json(v) == [k |-> "json", v |-> v]

TextBlock(segs) == [type |-> "text", text |-> segs]

ToolUseBlock == [type |-> "tool_use"]

SyntaxError == "SyntaxError: Unexpected token in JSON"

Parsed(v) == [kind |-> "parsed", v |-> v]

NoMatch == [kind |-> "nomatch"]

\* JSON.parse(jsonText) of the trimmed text.
JSONParse(segs) ==
  IF Len(segs) = 1 /\ segs[1].k = "json" THEN Parsed(segs[1].v)
  ELSE Threw(SyntaxError)

RECURSIVE HasBrace(_)
\* The JSON text of v holds a brace.
HasBrace(v) ==
  CASE v.t = "object" -> TRUE
    [] v.t = "array" -> \E i \in 1..Len(v.a) : HasBrace(v.a[i])
    [] OTHER -> FALSE

RECURSIVE HasBracket(_)
\* The JSON text of v holds a bracket.
HasBracket(v) ==
  CASE v.t = "array" -> TRUE
    [] v.t = "object" -> \E key \in DOMAIN v.f : HasBracket(v.f[key])
    [] OTHER -> FALSE

RECURSIVE BraceSpan(_)
\* JSON.parse of the span from the first { to the last } of v's JSON text.
BraceSpan(v) ==
  IF v.t = "object" THEN Parsed(v)
  ELSE LET inner == {i \in 1..Len(v.a) : HasBrace(v.a[i])}
       IN IF Cardinality(inner) = 1 THEN BraceSpan(v.a[CHOOSE i \in inner : TRUE])
          ELSE Threw(SyntaxError)

RECURSIVE BracketSpan(_)
\* JSON.parse of the span from the first [ to the last ] of v's JSON text.
BracketSpan(v) ==
  IF v.t = "array" THEN Parsed(v)
  ELSE LET inner == {key \in DOMAIN v.f : HasBracket(v.f[key])}
       IN IF Cardinality(inner) = 1 THEN BracketSpan(v.f[CHOOSE key \in inner : TRUE])
          ELSE Threw(SyntaxError)

\* jsonText.match(/\{[\s\S]*\}/) followed by JSON.parse(jsonMatch[0]).
MatchBraces(segs) ==
  LET holders == {i \in 1..Len(segs) : segs[i].k = "json" /\ HasBrace(segs[i].v)}
  IN IF holders = {} THEN NoMatch
     ELSE IF Cardinality(holders) = 1 THEN BraceSpan(segs[CHOOSE i \in holders : TRUE].v)
     ELSE Threw(SyntaxError)

\* jsonText.match(/\[[\s\S]*\]/) followed by JSON.parse(jsonMatch[0]).
MatchBrackets(segs) ==
  LET holders == {i \in 1..Len(segs) : segs[i].k = "json" /\ HasBracket(segs[i].v)}
  IN IF holders = {} THEN NoMatch
     ELSE IF Cardinality(holders) = 1 THEN BracketSpan(segs[CHOOSE i \in holders : TRUE].v)
     ELSE Threw(SyntaxError)

RECURSIVE Stringify(_)
\* The JSON text of a value without objects (the texts quoted in the
\* "Failed to parse" messages hold no brace).
Stringify(v) ==
  CASE v.t = "string" -> "\"" \o v.s \o "\""
    [] v.t = "number" -> ToString(v.n)
    [] v.t = "boolean" -> IF v.b THEN "true" ELSE "false"
    [] v.t = "null" -> "null"
    [] v.t = "array" -> "[" \o Join([i \in 1..Len(v.a) |-> Stringify(v.a[i])], ",") \o "]"

\* The text of a reply.
TextOf(segs) ==
  Join([i \in 1..Len(segs) |->
          IF segs[i].k = "prose" THEN segs[i].s ELSE Stringify(segs[i].v)], " ")

\* s.substring(from, to)
Substring(s, from, to) == SubSeq(s, from + 1, IF to < Len(s) THEN to ELSE Len(s))

\* response.content.find((block) => block.type === 'text')
FindTextBlock(content) ==
  LET texts == {i \in 1..Len(content) : content[i].type = "text"}
  IN IF texts = {} THEN [type |-> "undefined"]
     ELSE content[CHOOSE i \in texts : \A j \in texts : i <= j]

\* validateRecipe: every field defaulted through ||.
validateRecipe(recipe) ==
  [name        |-> Or(Get(recipe, "name"), S("Untitled Recipe")),
   ingredients |-> Or(Get(recipe, "ingredients"), S("")),
   directions  |-> Or(Get(recipe, "directions"), S("")),
   prep_time   |-> Or(Get(recipe, "prep_time"), S("")),
   cook_time   |-> Or(Get(recipe, "cook_time"), S("")),
   servings    |-> Or(Get(recipe, "servings"), S("")),
   source      |-> Or(Get(recipe, "source"), S("")),
   source_url  |-> Or(Get(recipe, "source_url"), S("")),
   notes       |-> Or(Get(recipe, "notes"), S("")),
   image_url   |-> Or(Get(recipe, "image_url"), JUndef)]

\* parseRecipeResponse: the recipe of a reply, or the error thrown.
parseRecipeResponse(response) ==
  LET textBlock == FindTextBlock(response.content)
  IN IF textBlock.type # "text" THEN Threw("No text response from Claude")
     ELSE LET jsonText == textBlock.text
              first    == JSONParse(jsonText)
              jsonMatch == MatchBraces(jsonText)
          IN IF first.kind = "parsed" /\ ~GetThrows(first.v)
             THEN Found(validateRecipe(first.v))
             ELSE IF jsonMatch.kind = "nomatch"
             THEN Threw("Failed to parse recipe JSON: "
                          \o Substring(TextOf(jsonText), 0, 200))
             ELSE IF jsonMatch.kind = "throw" THEN jsonMatch
             ELSE Found(validateRecipe(jsonMatch.v))

Recipes(rs) == [kind |-> "recipes", recipes |-> rs]

\* ValidateAll keeping the first recipe only.
ValidateAll_FirstOnly(xs) ==
  IF \E i \in 1..Len(xs) : GetThrows(xs[i]) THEN Threw(TypeErrorNull)
  ELSE Recipes(IF xs = <<>> THEN <<>> ELSE <<validateRecipe(xs[1])>>)

\* recipes.map((r) => this.validateRecipe(r)); a null element throws.
ValidateAll(xs) ==
  IF \E i \in 1..Len(xs) : GetThrows(xs[i]) THEN Threw(TypeErrorNull)
  ELSE Recipes([i \in 1..Len(xs) |-> validateRecipe(xs[i])])

\* extractFromPDF, lines 273-293: the recipes of a reply, or the error thrown.
ParsePdfResponse(response) ==
  LET textBlock == FindTextBlock(response.content)
  IN IF textBlock.type # "text" THEN Threw("No text response from Claude")
     ELSE LET jsonText == textBlock.text
              first    == JSONParse(jsonText)
              direct   == IF first.kind # "parsed" THEN first
                          ELSE IF IsArray(first.v) THEN ValidateAll(first.v.a)
                          ELSE ValidateAll(<<first.v>>)
              brackets == MatchBrackets(jsonText)
              jsonMatch == IF brackets.kind = "nomatch" THEN MatchBraces(jsonText)
                           ELSE brackets
          IN IF direct.kind = "recipes" THEN direct
             ELSE IF jsonMatch.kind = "nomatch"
             THEN Threw("Failed to parse PDF recipe JSON: "
                          \o Substring(TextOf(jsonText), 0, 200))
             ELSE IF jsonMatch.kind = "throw" THEN jsonMatch
             ELSE IF IsArray(jsonMatch.v) THEN ValidateAll(jsonMatch.v.a)
             ELSE ValidateAll(<<jsonMatch.v>>)

(***************************************************************************)
(* claude.ts: extractFromURL.  A fetched page is given by its JSON-LD      *)
(* script blocks, in document order, and its image meta tags.              *)
(***************************************************************************)

RECURSIVE SchemaLoop(_, _, _, _)
\* The loop over the JSON-LD blocks from block i on (lines 322-334);
\* recipeFromSchema is the variable of that name.  A block that does not
\* parse, or whose walk throws, leaves the variable as it was.
SchemaLoop(blocks, i, url, recipeFromSchema) ==
  IF i > Len(blocks) THEN recipeFromSchema
  ELSE LET parsedBlock == JSONParse(blocks[i])
           r == IF parsedBlock.kind = "throw" THEN parsedBlock
                ELSE extractRecipeFromJsonLd(parsedBlock.v, url)
       IN IF r.kind = "throw" THEN SchemaLoop(blocks, i + 1, url, recipeFromSchema)
          ELSE IF Usable(r) THEN r
          ELSE SchemaLoop(blocks, i + 1, url, r)

\* CompleteSchema with any named schema recipe accepted.
CompleteSchema_NameOnly(recipeFromSchema) == recipeFromSchema.kind = "recipe"

\* Line 338: the schema recipe is returned when it has ingredients and
\* directions.
CompleteSchema(recipeFromSchema) ==
  /\ recipeFromSchema.kind = "recipe"
  /\ Truthy(recipeFromSchema.recipe.ingredients)
  /\ Truthy(recipeFromSchema.recipe.directions)

\* An attribute of a tag.  A page's meta tags are given in markup order,
\* each by its attributes in markup order (names and values in lower case
\* where the patterns, which ignore case, compare them).
Attr(n, v) == [n |-> n, v |-> v]

\* Lines 346-347: the capture of
\* /<meta[^>]*KEY="VALUE"[^>]*content="([^"]+)"/i, or Undef without a match.
\* The match is the first tag that has the attribute KEY="VALUE" and, after
\* it, a content attribute with a non-empty value; the greedy [^>]* leaves
\* the last such content attribute to the capture.
MetaMatch(tags, key, value) ==
  LET Captures(tag) ==
        {j \in 1..Len(tag) :
           /\ tag[j].n = "content" /\ tag[j].v # ""
           /\ \E i \in 1..(j - 1) : tag[i].n = key /\ tag[i].v = value}
      hits == {t \in 1..Len(tags) : Captures(tags[t]) # {}}
  IN IF hits = {} THEN Undef
     ELSE LET t == CHOOSE t \in hits : \A u \in hits : t <= u
              j == CHOOSE j \in Captures(tags[t]) : \A k \in Captures(tags[t]) : k <= j
          IN tags[t][j].v

\* Line 348: ogImageMatch?.[1] || twitterImageMatch?.[1] || ''
MetaImage(page) ==
  LET ogImageMatch == MetaMatch(page.meta, "property", "og:image")
      twitterImageMatch == MetaMatch(page.meta, "name", "twitter:image")
  IN IF ogImageMatch # Undef THEN ogImageMatch
     ELSE IF twitterImageMatch # Undef THEN twitterImageMatch
  ELSE ""

\* Lines 364-370: the recipe of the generative reply, completed.
CompleteFromHtml(recipe, url, imageUrl) ==
  LET r1 == [recipe EXCEPT !.source_url = S(url)]
  IN IF ~Truthy(r1.image_url) /\ imageUrl # ""
     THEN [r1 EXCEPT !.image_url = S(imageUrl)]
     ELSE r1

\* CompleteFromTranscript with the author written over any source.
CompleteFromTranscript_AuthorAlways(recipe, sourceUrl, authorName) ==
  LET r1 == [recipe EXCEPT !.source_url = S(sourceUrl)]
  IN IF authorName # Undef /\ authorName # ""
     THEN [r1 EXCEPT !.source = S(authorName)]
     ELSE r1

\* extractFromTranscript, lines 234-240.
CompleteFromTranscript(recipe, sourceUrl, authorName) ==
  LET r1 == [recipe EXCEPT !.source_url = S(sourceUrl)]
  IN IF authorName # Undef /\ authorName # "" /\ ~Truthy(r1.source)
     THEN [r1 EXCEPT !.source = S(authorName)]
     ELSE r1

\* detectPlatform without the lower-casing of the URL.
detectPlatform_CaseSensitive(url) ==
  IF Includes(url, "tiktok.com") \/ Includes(url, "vm.tiktok.com")
  THEN "tiktok"
  ELSE IF Includes(url, "instagram.com") THEN "instagram"
  ELSE "unknown"

\* video-downloader.ts: detectPlatform.
detectPlatform(url) ==
  LET lowerUrl == ToLowerCase(url)
  IN IF Includes(lowerUrl, "tiktok.com") \/ Includes(lowerUrl, "vm.tiktok.com")
     THEN "tiktok"
     ELSE IF Includes(lowerUrl, "instagram.com") THEN "instagram"
     ELSE "unknown"

(***************************************************************************)
(* What the external services may answer.                                  *)
(***************************************************************************)

MaxPdfRecipes == 2

Message(content) == [kind |-> "message", content |-> content]

PieRecipe ==
  Obj([name |-> S("Pie"), ingredients |-> S("2 apples\n1 crust"),
       directions |-> S("Peel.\nBake."), servings |-> N(8)])

UnreadableRecipe ==
  Obj([name |-> S("UNREADABLE"), notes |-> S("The image is too blurry")])

NoRecipe ==
  Obj([name |-> S("NO_RECIPE"), notes |-> S("No recipe found")])

\* Replies of the generative service to a single-recipe prompt: a message,
\* or the error the client throws.
SingleReplies ==
  {Message(<<TextBlock(<<Json(PieRecipe)>>)>>),
   Message(<<TextBlock(<<Prose("Here is the recipe:"), Json(UnreadableRecipe)>>)>>),
   Message(<<TextBlock(<<Json(NoRecipe)>>)>>),
   Message(<<TextBlock(<<Prose("I cannot help with that.")>>)>>),
   Threw("529 overloaded")}

PdfRecordPool == <<PieRecipe, UnreadableRecipe, NoRecipe>>

\* Replies to the PDF prompt: arrays of records, a bare record, prose, or
\* the error the client throws.
PdfReplies ==
  {Message(<<TextBlock(<<Json(Arr([k \in 1..Len(ks) |-> PdfRecordPool[ks[k]]]))>>)>>) :
     ks \in SeqsUpTo(1..Len(PdfRecordPool), MaxPdfRecipes)}
  \cup
  {Message(<<TextBlock(<<Json(PieRecipe)>>)>>),
   Message(<<ToolUseBlock>>),
   Threw("529 overloaded")}

\* A JSON-LD block holding the placeholder name with ingredients and steps.
PlaceholderComplete ==
  Typed(S("Recipe"),
    [name |-> S("NO_RECIPE"), recipeIngredient |-> Arr(<<S("salt")>>),
     recipeInstructions |-> Arr(<<S("Stir.")>>)])

\* Answers to the page fetch: a page, or a response that is not ok.
OgTag(image) == <<Attr("property", "og:image"), Attr("content", image)>>

TwitterTag(image) == <<Attr("name", "twitter:image"), Attr("content", image)>>

\* A fetched page with its JSON-LD blocks and meta tags.
PageWith(blocks, meta) == [ok |-> TRUE, blocks |-> blocks, meta |-> meta]

\* A page whose image tags, where it has them, are written property (or
\* name) first.
Page(blocks, ogImage, twitterImage) ==
  PageWith(blocks,
           (IF ogImage = Undef THEN <<>> ELSE <<OgTag(ogImage)>>)
             \o (IF twitterImage = Undef THEN <<>> ELSE <<TwitterTag(twitterImage)>>))

PageAnswers ==
  {Page(<<<<Json(SiteNode)>>, <<Json(Graph(Arr(<<SiteNode, PieNode>>)))>>>>, Undef, Undef),
   Page(<<<<Json(SoupNode)>>>>, "https://img.example.com/og.jpg", Undef),
   Page(<<<<Prose("not json")>>, <<Json(PlaceholderComplete)>>>>, Undef,
        "https://img.example.com/tw.jpg"),
   [ok |-> FALSE, status |-> "404 Not Found"]}

\* Answers of the video-info service.
VideoInfoAnswers ==
  {[ok |-> TRUE, videoUrl |-> "https://cdn.example.com/v.mp4", author |-> "chef",
    caption |-> "Apple pie"],
   [ok |-> TRUE, videoUrl |-> Undef, author |-> Undef, caption |-> Undef],
   [ok |-> FALSE, status |-> "429", text |-> "Too many requests"]}

\* Answers of the media fetch.
MediaAnswers == {[ok |-> TRUE], [ok |-> FALSE, status |-> "403"]}

\* Answers of the transcription model: result.text.
TranscriptAnswers == {"Peel the apples and bake.", Undef}

\* Answers of the sink's POST.
SinkAnswers ==
  {[ok |-> TRUE, text |-> "{\"result\":true}", json |-> TRUE],
   [ok |-> TRUE, text |-> "Created", json |-> FALSE],
   [ok |-> FALSE, status |-> "500", text |-> "error"]}

(***************************************************************************)
(* index.ts: the email handler.  One action per awaited external call;     *)
(* each action runs the code up to the next await.  An entry of results    *)
(* carries, besides the fields of ProcessingResult, the index of the item  *)
(* whose chain pushed it (a history tag).                                  *)
(***************************************************************************)

\* Items with the URLs taken before the PDFs.
Items_UrlsFirst(p) ==
  (IF Len(p.images) > 0 THEN <<[kind |-> "images", k |-> 0]>> ELSE <<>>)
    \o [i \in 1..Len(p.urls) |-> [kind |-> "url", k |-> i]]
    \o [i \in 1..Len(p.pdfs) |-> [kind |-> "pdf", k |-> i]]
    \o [i \in 1..Len(p.videos) |-> [kind |-> "video", k |-> i]]

\* The items in the order the handler takes them (lines 57, 74, 89, 103);
\* k is the index in the item's list, 0 for the merged image group.
Items(p) ==
  (IF Len(p.images) > 0 THEN <<[kind |-> "images", k |-> 0]>> ELSE <<>>)
    \o [i \in 1..Len(p.pdfs) |-> [kind |-> "pdf", k |-> i]]
    \o [i \in 1..Len(p.urls) |-> [kind |-> "url", k |-> i]]
    \o [i \in 1..Len(p.videos) |-> [kind |-> "video", k |-> i]]

\* The first awaited call of an item's chain.
FirstStage(kind) ==
  CASE kind = "images" -> "extractFromMultipleImages"
    [] kind = "pdf" -> "extractFromPDF"
    [] kind = "url" -> "fetch"
    [] kind = "video" -> "downloadVideo"

CurrentItem == Items(parsed)[item]

\* An entry of the call log: the call, the item it serves and the message of
\* the error its stage threw ("" when the stage went through).
Call(op, error) == [op |-> op, item |-> item, error |-> error]

ErrorOf(r) == IF r.kind = "throw" THEN r.error ELSE ""

\* The log entry of a call that extracts: it also carries the records the
\* extraction handed to saveRecipe, in order (none when it threw).
Extracted(op, error, records) ==
  [op |-> op, item |-> item, error |-> error, records |-> records]

\* The records of an extraction outcome.
RecordsOf(r) ==
  IF r.kind = "recipe" THEN <<r.recipe>>
  ELSE IF r.kind = "recipes" THEN r.recipes
  ELSE <<>>

\* claude.ts line 3: the image prompt (its first sentence stands for the
\* whole template).
IMAGE_RECIPE_PROMPT ==
  "Extract the recipe from this image. Return ONLY valid JSON with no additional text or markdown formatting."

validMimeTypes == <<"image/jpeg", "image/png", "image/gif", "image/webp">>

\* ImageRequest with the merge instruction in every prompt.
ImageRequest_AlwaysMerge(images) ==
  [images |-> [i \in 1..Len(images) |->
                 [type |-> "image",
                  media_type |-> IF ArrayIncludes(validMimeTypes, images[i].mimeType)
                                 THEN images[i].mimeType ELSE "image/jpeg",
                  data |-> images[i].data]],
   prompt |-> "These " \o ToString(Len(images))
                \o " images are pages of the SAME recipe. Combine all the information into a single recipe.\n\n"
                \o IMAGE_RECIPE_PROMPT]

\* extractFromMultipleImages, lines 148-185: the content of the one request
\* made for the images: an image block per image, then the prompt.
ImageRequest(images) ==
  [images |-> [i \in 1..Len(images) |->
                 [type |-> "image",
                  media_type |-> IF ArrayIncludes(validMimeTypes, images[i].mimeType)
                                 THEN images[i].mimeType ELSE "image/jpeg",
                  data |-> images[i].data]],
   prompt |-> IF Len(images) > 1
              THEN "These " \o ToString(Len(images))
                     \o " images are pages of the SAME recipe. Combine all the information into a single recipe.\n\n"
                     \o IMAGE_RECIPE_PROMPT
              ELSE IMAGE_RECIPE_PROMPT]

\* index.ts lines 60-63: the images handed to extractFromMultipleImages.
imageData(images) ==
  [i \in 1..Len(images) |->
     [data |-> images[i].data, mimeType |-> OrElse(images[i].mimeType, "image/jpeg")]]

Logged(call) == calls' = Append(calls, call)

Success(recipeName) == [success |-> TRUE, recipeName |-> recipeName, item |-> item]

Failure(error) == [success |-> FALSE, error |-> error, item |-> item]

\* The end of an item's chain: the next item starts, or the handler returns
\* after the summary (lines 135-147).
Advance(res) ==
  /\ results' = res
  /\ item' = item + 1
  /\ ctx' = NoCtx
  /\ IF item + 1 > Len(Items(parsed))
     THEN pc' = "done" /\ stage' = ""
     ELSE pc' = "run" /\ stage' = FirstStage(Items(parsed)[item + 1].kind)

\* Fail with the fault ending the whole run instead of the item's chain.
Fail_Abort(error) ==
  /\ results' = Append(results, Failure(error))
  /\ ctx' = NoCtx
  /\ pc' = "done"
  /\ stage' = ""
  /\ UNCHANGED item

\* The catch at the item boundary (lines 66-70, 81-85, 95-99, 128-132).
Fail(error) == Advance(Append(results, Failure(error)))

\* saveRecipe's test of the reserved names (line 43).
Declined(recipe) == recipe.name = S("UNREADABLE") \/ recipe.name = S("NO_RECIPE")

RECURSIVE DeclineLeading(_, _, _)
\* saveRecipe applied to the recipes in turn, up to the first one that is
\* submitted: each declined recipe pushes one failure (lines 44-48).
DeclineLeading(recipes, sourceDesc, res) ==
  IF recipes = <<>> THEN [pending |-> <<>>, results |-> res]
  ELSE IF Declined(Head(recipes))
  THEN DeclineLeading(Tail(recipes), sourceDesc,
         Append(res, Failure("Could not extract recipe from " \o sourceDesc \o ": "
                               \o JsString(Head(recipes).notes))))
  ELSE [pending |-> recipes, results |-> res]

\* saveRecipe for the remaining recipes of one item, up to the next
\* createRecipe; count is the number of recipes extracted for the item.
SaveRest(recipes, sourceDesc, res, count) ==
  LET d == DeclineLeading(recipes, sourceDesc, res)
  IN IF d.pending = <<>> THEN Advance(d.results)
     ELSE /\ results' = d.results
          /\ stage' = "createRecipe"
          /\ ctx' = [pending |-> d.pending, sourceDesc |-> sourceDesc, count |-> count]
          /\ UNCHANGED <<item, pc>>

\* saveRecipe for the recipes extracted for one item.
Save(recipes, sourceDesc, res) == SaveRest(recipes, sourceDesc, res, Len(recipes))

\* A generative call's outcome: the client's error, or the parsed reply.
ReplyRecipe(reply) == IF reply.kind = "throw" THEN reply ELSE parseRecipeResponse(reply)

\* EmailParse with a parse error swallowed: the handler returns normally.
EmailParse_Swallow ==
  /\ pc = "email"
  /\ LET r == parseEmailContent(req.email)
     IN IF r.threw
        THEN /\ pc' = "done"
             /\ UNCHANGED <<parsed, item, stage>>
        ELSE /\ parsed' = r
             /\ IF Len(Items(r)) = 0
                THEN pc' = "done" /\ UNCHANGED <<item, stage>>
                ELSE pc' = "run" /\ item' = 1 /\ stage' = FirstStage(Items(r)[1].kind)
  /\ UNCHANGED <<req, ctx, results, calls, thrown, fin, fout>>

\* Lines 23-37: the message is parsed; a throw is rethrown by the outer
\* catch (lines 148-151), an empty message returns.
EmailParse ==
  /\ pc = "email"
  /\ LET r == parseEmailContent(req.email)
     IN IF r.threw
        THEN /\ thrown' = r.error
             /\ pc' = "threw"
             /\ UNCHANGED <<parsed, item, stage>>
        ELSE /\ parsed' = r
             /\ UNCHANGED thrown
             /\ IF Len(Items(r)) = 0
                THEN pc' = "done" /\ UNCHANGED <<item, stage>>
                ELSE pc' = "run" /\ item' = 1 /\ stage' = FirstStage(Items(r)[1].kind)
  /\ UNCHANGED <<req, ctx, results, calls, fin, fout>>

AtStage(kind, st) == pc = "run" /\ CurrentItem.kind = kind /\ stage = st

\* Lines 57-71: all images in one generative call.
ExtractFromMultipleImages ==
  /\ AtStage("images", "extractFromMultipleImages")
  /\ \E reply \in SingleReplies :
       LET r == ReplyRecipe(reply)
       IN /\ Logged([op |-> "extractFromMultipleImages", item |-> item,
                      error |-> ErrorOf(r), records |-> RecordsOf(r),
                      request |-> ImageRequest(imageData(parsed.images))])
          /\ IF r.kind = "throw" THEN Fail(r.error)
             ELSE Save(<<r.recipe>>, ToString(Len(parsed.images)) \o " image(s)", results)
  /\ UNCHANGED <<req, parsed, thrown, fin, fout>>

\* Lines 74-86: one generative call per PDF, then saveRecipe per recipe.
ExtractFromPDF ==
  /\ AtStage("pdf", "extractFromPDF")
  /\ \E reply \in PdfReplies :
       LET r == IF reply.kind = "throw" THEN reply ELSE ParsePdfResponse(reply)
       IN /\ Logged([op |-> "extractFromPDF", item |-> item, error |-> ErrorOf(r),
                      records |-> RecordsOf(r), reply |-> reply])
          /\ IF r.kind = "throw" THEN Fail(r.error)
             ELSE Save(r.recipes, OrElse(parsed.pdfs[CurrentItem.k].filename, "PDF"),
                       results)
  /\ UNCHANGED <<req, parsed, thrown, fin, fout>>

\* extractFromURL, lines 303-340: the page fetch and the JSON-LD scan.
FetchPage ==
  /\ AtStage("url", "fetch")
  /\ LET url == parsed.urls[CurrentItem.k].data
     IN \E answer \in PageAnswers :
          IF ~answer.ok
          THEN /\ Logged(Extracted("fetch", "Failed to fetch URL: " \o answer.status, <<>>))
               /\ Fail("Failed to fetch URL: " \o answer.status)
          ELSE LET recipeFromSchema == SchemaLoop(answer.blocks, 1, url, NotFound)
               IN /\ Logged(Extracted("fetch", "",
                             IF CompleteSchema(recipeFromSchema)
                             THEN <<recipeFromSchema.recipe>> ELSE <<>>))
                  /\ IF CompleteSchema(recipeFromSchema)
                     THEN Save(<<recipeFromSchema.recipe>>, url, results)
                     ELSE /\ stage' = "extractFromHtml"
                          /\ ctx' = [imageUrl |-> MetaImage(answer)]
                          /\ UNCHANGED <<results, item, pc>>
  /\ UNCHANGED <<req, parsed, thrown, fin, fout>>

\* extractFromURL, lines 353-370: the generative fallback on the page's HTML.
ExtractFromHtml ==
  /\ AtStage("url", "extractFromHtml")
  /\ LET url == parsed.urls[CurrentItem.k].data
     IN \E reply \in SingleReplies :
          LET r == ReplyRecipe(reply)
              recipe == CompleteFromHtml(r.recipe, url, ctx.imageUrl)
          IN /\ Logged(Extracted("extractFromHtml", ErrorOf(r),
                                 IF r.kind = "throw" THEN <<>> ELSE <<recipe>>))
             /\ IF r.kind = "throw" THEN Fail(r.error)
                ELSE Save(<<recipe>>, url, results)
  /\ UNCHANGED <<req, parsed, thrown, fin, fout>>

PlatformName(platform) == IF platform = "tiktok" THEN "TikTok" ELSE "Instagram"

\* video-downloader.ts: downloadVideo for a URL and the service's answer;
\* an unsupported URL throws before any request is made.
downloadVideo(url, answer) ==
  LET platform == detectPlatform(url)
  IN IF platform = "unknown"
     THEN [called |-> FALSE, r |-> Threw("Unsupported video platform: " \o url)]
     ELSE IF ~answer.ok
     THEN [called |-> TRUE,
           r |-> Threw(PlatformName(platform) \o " API error: " \o answer.status
                         \o " - " \o answer.text)]
     ELSE IF answer.videoUrl = Undef
     THEN [called |-> TRUE,
           r |-> Threw("No video URL found in " \o PlatformName(platform) \o " response")]
     ELSE [called |-> TRUE,
           r |-> [kind |-> "videoInfo", platform |-> platform, videoUrl |-> answer.videoUrl,
                  author |-> answer.author, caption |-> answer.caption]]

\* Line 109.
DownloadVideo ==
  /\ AtStage("video", "downloadVideo")
  /\ \E answer \in VideoInfoAnswers :
       LET d == downloadVideo(parsed.videos[CurrentItem.k].data, answer)
       IN /\ calls' = IF d.called
                      THEN Append(calls, Call("downloadVideo", ErrorOf(d.r)))
                      ELSE calls
          /\ IF d.r.kind = "throw" THEN Fail(d.r.error)
             ELSE /\ stage' = "fetchVideoContent"
                  /\ ctx' = [videoInfo |-> d.r]
                  /\ UNCHANGED <<results, item, pc>>
  /\ UNCHANGED <<req, parsed, thrown, fin, fout>>

\* Line 113 and video-downloader.ts: fetchVideoContent.
FetchVideoContent ==
  /\ AtStage("video", "fetchVideoContent")
  /\ \E answer \in MediaAnswers :
       IF ~answer.ok
       THEN /\ Logged(Call("fetchVideoContent", "Failed to fetch video: " \o answer.status))
            /\ Fail("Failed to fetch video: " \o answer.status)
       ELSE /\ Logged(Call("fetchVideoContent", ""))
            /\ stage' = "transcribeAudio"
            /\ UNCHANGED <<ctx, results, item, pc>>
  /\ UNCHANGED <<req, parsed, thrown, fin, fout>>

\* TranscribeAudio with one retry after a transcription without text.
TranscribeAudio_Retry ==
  /\ AtStage("video", "transcribeAudio")
  /\ \E text \in TranscriptAnswers :
       IF text = Undef \/ text = ""
       THEN /\ Logged(Call("transcribeAudio", "No transcription text returned from Whisper"))
            /\ IF calls[Len(calls)].op = "transcribeAudio"
               THEN Fail("No transcription text returned from Whisper")
               ELSE UNCHANGED <<stage, ctx, results, item, pc>>
       ELSE /\ Logged(Call("transcribeAudio", ""))
            /\ stage' = "extractFromTranscript"
            /\ ctx' = [videoInfo |-> ctx.videoInfo, text |-> text]
            /\ UNCHANGED <<results, item, pc>>
  /\ UNCHANGED <<req, parsed, thrown, fin, fout>>

\* Line 117 and transcriber.ts: transcribeAudio.
TranscribeAudio ==
  /\ AtStage("video", "transcribeAudio")
  /\ \E text \in TranscriptAnswers :
       IF text = Undef \/ text = ""
       THEN /\ Logged(Call("transcribeAudio", "No transcription text returned from Whisper"))
            /\ Fail("No transcription text returned from Whisper")
       ELSE /\ Logged(Call("transcribeAudio", ""))
            /\ stage' = "extractFromTranscript"
            /\ ctx' = [videoInfo |-> ctx.videoInfo, text |-> text]
            /\ UNCHANGED <<results, item, pc>>
  /\ UNCHANGED <<req, parsed, thrown, fin, fout>>

\* Lines 121-127.
ExtractFromTranscript ==
  /\ AtStage("video", "extractFromTranscript")
  /\ LET videoItem == parsed.videos[CurrentItem.k]
     IN \E reply \in SingleReplies :
          LET r == ReplyRecipe(reply)
              recipe == CompleteFromTranscript(r.recipe, videoItem.data,
                                               ctx.videoInfo.author)
          IN /\ Logged(Extracted("extractFromTranscript", ErrorOf(r),
                                 IF r.kind = "throw" THEN <<>> ELSE <<recipe>>))
             /\ IF r.kind = "throw" THEN Fail(r.error)
                ELSE Save(<<recipe>>, OrElse(videoItem.platform, "unknown") \o " video",
                          results)
  /\ UNCHANGED <<req, parsed, thrown, fin, fout>>

SinkError(answer) == "Failed to create recipe: " \o answer.status \o " - " \o answer.text

\* saveRecipe, lines 51-53, and paprika.ts: createRecipe for the first
\* pending recipe of the item; then saveRecipe for the item's next recipes.
\* The log entry carries the recipe and its position among the item's
\* extracted recipes.
CreateRecipe ==
  /\ pc = "run" /\ stage = "createRecipe"
  /\ LET recipe == Head(ctx.pending)
         record == ctx.count - Len(ctx.pending) + 1
     IN \E answer \in SinkAnswers :
          IF ~answer.ok
          THEN /\ Logged([op |-> "createRecipe", item |-> item,
                          error |-> SinkError(answer), recipe |-> recipe,
                          record |-> record])
               /\ Fail(SinkError(answer))
          ELSE /\ Logged([op |-> "createRecipe", item |-> item, error |-> "",
                          recipe |-> recipe, record |-> record])
               /\ SaveRest(Tail(ctx.pending), ctx.sourceDesc,
                           Append(results, Success(recipe.name)), ctx.count)
  /\ UNCHANGED <<req, parsed, thrown, fin, fout>>

(***************************************************************************)
(* index.ts: the HTTP test routes.  Each route is one action: the whole    *)
(* handler, from the request to the response, with the answers of the      *)
(* services it calls.                                                      *)
(***************************************************************************)

HttpCall(op) == [op |-> op, item |-> 0]

SinkCall(recipe) == [op |-> "createRecipe", item |-> 0, recipe |-> recipe]

Response(code, status, message) == [code |-> code, status |-> status, message |-> message]

\* The catch of a route: a 500 response carrying the error's message.
ErrorResponse(error) == Response(500, "error", error)

Outcome(cs, response) == [calls |-> cs, response |-> response]

\* createRecipe and the success response of a single-recipe route; the
\* response's body is parsed as JSON when it is not empty.
SubmitAndRespond(cs, recipe, answer) ==
  Outcome(Append(cs, SinkCall(recipe)),
    IF ~answer.ok THEN ErrorResponse(SinkError(answer))
    ELSE IF answer.text # "" /\ ~answer.json THEN ErrorResponse(SyntaxError)
    ELSE Response(200, "ok", "Recipe \"" \o JsString(recipe.name) \o "\" added to Paprika"))

\* POST /test-full, lines 281-318.
TestFullOutcome(reply, answer) ==
  LET r  == ReplyRecipe(reply)
      cs == <<HttpCall("extractFromMultipleImages")>>
  IN IF r.kind = "throw" THEN Outcome(cs, ErrorResponse(r.error))
     ELSE IF r.recipe.name = S("UNREADABLE")
     THEN Outcome(cs, Response(400, "error", "Could not read recipe from image"))
     ELSE SubmitAndRespond(cs, r.recipe, answer)

\* POST /test-url, lines 321-363.
TestUrlOutcome(url, page, reply, answer) ==
  LET recipeFromSchema == SchemaLoop(page.blocks, 1, url, NotFound)
      r   == ReplyRecipe(reply)
      cs1 == <<HttpCall("fetch")>>
      cs2 == Append(cs1, HttpCall("extractFromHtml"))
      respond(cs, recipe) ==
        IF recipe.name = S("NO_RECIPE")
        THEN Outcome(cs, Response(400, "error", "No recipe found at URL"))
        ELSE SubmitAndRespond(cs, recipe, answer)
  IN IF url = Undef \/ url = ""
     THEN Outcome(<<>>, Response(400, "error", "Missing url in request body"))
     ELSE IF ~page.ok THEN Outcome(cs1, ErrorResponse("Failed to fetch URL: " \o page.status))
     ELSE IF CompleteSchema(recipeFromSchema) THEN respond(cs1, recipeFromSchema.recipe)
     ELSE IF r.kind = "throw" THEN Outcome(cs2, ErrorResponse(r.error))
     ELSE respond(cs2, CompleteFromHtml(r.recipe, url, MetaImage(page)))

RECURSIVE TestPdfLoop(_, _, _)
\* The loop of /test-pdf over the recipes (lines 376-384); answers[i] is the
\* sink's answer to the i-th recipe if it is submitted.
TestPdfLoop(recipes, i, answers) ==
  IF i > Len(recipes)
  THEN Outcome(<<>>, Response(200, "ok",
         "Processed " \o ToString(Len(recipes)) \o " recipe(s) from PDF"))
  ELSE LET rest == TestPdfLoop(recipes, i + 1, answers)
       IN IF recipes[i].name = S("UNREADABLE") \/ recipes[i].name = S("NO_RECIPE")
          THEN rest
          ELSE IF ~answers[i].ok
          THEN Outcome(<<SinkCall(recipes[i])>>, ErrorResponse(SinkError(answers[i])))
          ELSE Outcome(<<SinkCall(recipes[i])>> \o rest.calls, rest.response)

\* POST /test-pdf, lines 366-400.
TestPdfOutcome(reply, answers) ==
  LET r  == IF reply.kind = "throw" THEN reply ELSE ParsePdfResponse(reply)
      cs == <<HttpCall("extractFromPDF")>>
  IN IF r.kind = "throw" THEN Outcome(cs, ErrorResponse(r.error))
     ELSE LET loop == TestPdfLoop(r.recipes, 1, answers)
          IN Outcome(cs \o loop.calls, loop.response)

\* POST /test-video, lines 403-474.
TestVideoOutcome(url, info, media, text, reply, answer) ==
  LET d   == downloadVideo(url, info)
      r   == ReplyRecipe(reply)
      cs1 == IF d.called THEN <<HttpCall("downloadVideo")>> ELSE <<>>
      cs2 == Append(cs1, HttpCall("fetchVideoContent"))
      cs3 == Append(cs2, HttpCall("transcribeAudio"))
      cs4 == Append(cs3, HttpCall("extractFromTranscript"))
      recipe == CompleteFromTranscript(r.recipe, url, d.r.author)
  IN IF url = Undef \/ url = ""
     THEN Outcome(<<>>, Response(400, "error", "Missing url in request body"))
     ELSE IF d.r.kind = "throw" THEN Outcome(cs1, ErrorResponse(d.r.error))
     ELSE IF ~media.ok
     THEN Outcome(cs2, ErrorResponse("Failed to fetch video: " \o media.status))
     ELSE IF text = Undef \/ text = ""
     THEN Outcome(cs3, ErrorResponse("No transcription text returned from Whisper"))
     ELSE IF r.kind = "throw" THEN Outcome(cs4, ErrorResponse(r.error))
     ELSE IF recipe.name = S("NO_RECIPE")
     THEN Outcome(cs4, Response(400, "error", "No recipe found in video"))
     ELSE SubmitAndRespond(cs4, recipe, answer)

Route(pathname) == pc = "fetch" /\ req.pathname = pathname /\ req.method = "POST"

Respond(outcome) ==
  /\ calls' = outcome.calls
  /\ fout' = outcome.response
  /\ pc' = "done"
  /\ UNCHANGED <<req, parsed, item, stage, ctx, results, thrown, fin>>

TestFull ==
  /\ Route("/test-full")
  /\ \E reply \in SingleReplies, answer \in SinkAnswers :
       Respond(TestFullOutcome(reply, answer))

TestUrl ==
  /\ Route("/test-url")
  /\ \E page \in PageAnswers, reply \in SingleReplies, answer \in SinkAnswers :
       Respond(TestUrlOutcome(req.url, page, reply, answer))

TestPdf ==
  /\ Route("/test-pdf")
  /\ \E reply \in PdfReplies, answers \in [1..MaxPdfRecipes -> SinkAnswers] :
       Respond(TestPdfOutcome(reply, answers))

TestVideo ==
  /\ Route("/test-video")
  /\ \E info \in VideoInfoAnswers, media \in MediaAnswers, text \in TranscriptAnswers,
        reply \in SingleReplies, answer \in SinkAnswers :
       Respond(TestVideoOutcome(req.url, info, media, text, reply, answer))

TestRoutes == {"/test-full", "/test-url", "/test-pdf", "/test-video"}

\* /health and the default response (lines 165-169, 477-496): no service
\* is called.
OtherRoute ==
  /\ pc = "fetch"
  /\ ~(req.pathname \in TestRoutes /\ req.method = "POST")
  /\ Respond(Outcome(<<>>, Response(200, "ok", "spice-spice-baby")))

(***************************************************************************)
(* Spec: the worker serves one request, an email message or an HTTP        *)
(* request.                                                                *)
(***************************************************************************)

Email(attachments, text) ==
  [malformed |-> FALSE, attachments |-> Attachments(attachments), text |-> BodyText(text),
   html |-> ""]

\* Messages: two images, a PDF, a URL and a video; two PDFs and two URLs;
\* two videos around a URL; nothing processable; a single image; a message
\* PostalMime rejects; a body whose URL makes the parser throw.
EmailPool ==
  {Email(<<1, 4, 2>>, <<3, 1>>),
   Email(<<5, 6, 4>>, <<7, 2>>),
   Email(<<>>, <<4, 1, 3>>),
   Email(<<6>>, <<6>>),
   Email(<<3>>, <<>>),
   [Email(<<1>>, <<1>>) EXCEPT !.malformed = TRUE],
   Email(<<4>>, <<1, 8>>)}

HttpRequest(pathname, method, url) ==
  [kind |-> "http", pathname |-> pathname, method |-> method, url |-> url]

RequestUrls ==
  {Undef, "https://www.allrecipes.com/recipe/1", "https://www.tiktok.com/@chef/video/7"}

Requests ==
  {[kind |-> "email", email |-> e] : e \in EmailPool}
  \cup {HttpRequest(pathname, "POST", url) : pathname \in TestRoutes, url \in RequestUrls}
  \cup {HttpRequest("/health", "GET", Undef), HttpRequest("/test-full", "GET", Undef)}

Init ==
  /\ req \in Requests
  /\ pc = IF req.kind = "email" THEN "email" ELSE "fetch"
  /\ parsed = EmptyContent
  /\ item = 0
  /\ stage = ""
  /\ ctx = NoCtx
  /\ results = <<>>
  /\ calls = <<>>
  /\ thrown = Undef
  /\ fin = NoOutput
  /\ fout = NoOutput

Next ==
  \/ EmailParse
  \/ ExtractFromMultipleImages
  \/ ExtractFromPDF
  \/ FetchPage
  \/ ExtractFromHtml
  \/ DownloadVideo
  \/ FetchVideoContent
  \/ TranscribeAudio
  \/ ExtractFromTranscript
  \/ CreateRecipe
  \/ TestFull
  \/ TestUrl
  \/ TestPdf
  \/ TestVideo
  \/ OtherRoute

Spec == Init /\ [][Next]_vars

(***************************************************************************)
(* Properties of the handlers.                                             *)
(***************************************************************************)

IsEmail == req.kind = "email"

\* What parseEmailContent does with each message of the pool.
ParseOutcome == [e \in EmailPool |-> parseEmailContent(e)]

ParseThrows == IsEmail /\ ParseOutcome[req.email].threw

ReservedNames == {S("UNREADABLE"), S("NO_RECIPE")}

\* C1: on every path that submits to the sink (the email handler and the
\* routes /test-full, /test-url, /test-pdf, /test-video), createRecipe is
\* never called with a record named "UNREADABLE" or "NO_RECIPE".
C1_SentinelNeverSubmitted ==
  \A i \in 1..Len(calls) :
    calls[i].op = "createRecipe" => calls[i].recipe.name \notin ReservedNames

\* C1 on the two paths that test both names: the email handler and
\* /test-pdf (holds; not the claim).
C1_EmailAndPdfRoute ==
  (IsEmail \/ (req.kind = "http" /\ req.pathname = "/test-pdf")) =>
    C1_SentinelNeverSubmitted

\* The stages of an item's chain: at each of them one action of the
\* handler is enabled.
ChainStages(kind) ==
  CASE kind = "images" -> {"extractFromMultipleImages", "createRecipe"}
    [] kind = "pdf" -> {"extractFromPDF", "createRecipe"}
    [] kind = "url" -> {"fetch", "extractFromHtml", "createRecipe"}
    [] kind = "video" -> {"downloadVideo", "fetchVideoContent", "transcribeAudio",
                          "extractFromTranscript", "createRecipe"}

\* The item whose chain made the first stage call.
Attempted(i) ==
  \E j \in 1..Len(calls) :
    calls[j].item = i /\ calls[j].op = FirstStage(Items(parsed)[i].kind)

\* The failure entries of item i that carry the message e.
FailureEntries(i, e) ==
  {j \in 1..Len(results) :
     results[j].item = i /\ ~results[j].success /\ results[j].error = e}

\* C2: in the email handler, once parseEmailContent has succeeded, an error
\* thrown in a stage of one item is appended to results as exactly one
\* failure entry carrying the original message, every remaining item is
\* still attempted, and the handler does not throw.
C2_FaultIsolation ==
  (IsEmail /\ ~ParseThrows) =>
    /\ thrown = Undef /\ pc # "threw"
    /\ \A j \in 1..Len(calls) :
         calls[j].error # "" =>
           Cardinality(FailureEntries(calls[j].item, calls[j].error)) = 1
    /\ pc = "run" =>
         /\ item \in 1..Len(Items(parsed))
         /\ \A i \in 1..(item - 1) : Attempted(i)
         /\ stage \in ChainStages(CurrentItem.kind)
         /\ stage = "createRecipe" => ctx.pending # <<>>
    /\ pc = "done" => \A i \in 1..Len(Items(parsed)) : Attempted(i)

\* A fault in the first item, a later item submitted, the handler finished.
C2_Witness ==
  /\ IsEmail /\ pc = "done"
  /\ \E j \in 1..Len(calls) : calls[j].item = 1 /\ calls[j].error # ""
  /\ \E j \in 1..Len(results) : results[j].item > 1 /\ results[j].success

\* C3: when parseEmailContent throws, the email handler propagates the
\* error to its caller and makes no extraction, download, transcription or
\* sink call.
C3_ParseFailurePropagates ==
  (ParseThrows /\ pc # "email") =>
    /\ pc = "threw"
    /\ thrown = ParseOutcome[req.email].error
    /\ calls = <<>>
    /\ results = <<>>

\* A malformed message, rethrown.
C3_Witness == IsEmail /\ req.email.malformed /\ pc = "threw" /\ thrown # Undef

\* The place of an item kind in the fixed order.
Rank(kind) ==
  CASE kind = "images" -> 1
    [] kind = "pdf" -> 2
    [] kind = "url" -> 3
    [] kind = "video" -> 4

\* The cleaned URLs of each message's body, in the order they occur.
BodyUrls ==
  [e \in EmailPool |->
     LET foundUrls == URL_PATTERN(e.text \o " " \o e.html)
     IN [i \in 1..Len(foundUrls) |-> CleanUrl(foundUrls[i])]]

\* xs lists its items in the order they are first seen in the body.
FirstSeenOrder(xs) ==
  \A i, j \in 1..Len(xs) :
    i < j => FirstIndex(BodyUrls[req.email], xs[i].data)
               < FirstIndex(BodyUrls[req.email], xs[j].data)

\* The items follow the fixed order: the image group, the PDFs in
\* attachment order, the URLs and then the videos in first-seen order.
FixedOrder ==
  LET items == Items(parsed)
  IN /\ Len(items) = (IF Len(parsed.images) > 0 THEN 1 ELSE 0) + Len(parsed.pdfs)
                       + Len(parsed.urls) + Len(parsed.videos)
     /\ \A i, j \in 1..Len(items) :
          i < j => \/ Rank(items[i].kind) < Rank(items[j].kind)
                   \/ items[i].kind = items[j].kind /\ items[i].k < items[j].k
     /\ \A i, j \in 1..Len(parsed.pdfs) :
          i < j => parsed.pdfs[i].data.id < parsed.pdfs[j].data.id
     /\ FirstSeenOrder(parsed.urls)
     /\ FirstSeenOrder(parsed.videos)

\* The log and the results follow the items' order.
InItemOrder ==
  /\ \A i, j \in 1..Len(calls) : i < j => calls[i].item <= calls[j].item
  /\ \A i, j \in 1..Len(results) : i < j => results[i].item <= results[j].item
  /\ \A i \in 1..Len(calls) :
       /\ calls[i].item \in 1..Len(Items(parsed))
       /\ calls[i].op \in ChainStages(Items(parsed)[calls[i].item].kind)

\* A step's calls and results entries belong to the item whose chain is
\* running, and the next item's chain starts only when that chain has ended.
ChainsDoNotOverlap ==
  /\ \A i \in (Len(calls) + 1)..Len(calls') : calls'[i].item = item
  /\ \A i \in (Len(results) + 1)..Len(results') : results'[i].item = item
  /\ item' \in {item, item + 1}
  /\ (item' = item + 1 /\ pc' = "run") =>
       stage' = FirstStage(Items(parsed')[item'].kind)

\* C4: the email handler takes the items in a fixed order (all images as
\* one unit, then each PDF in attachment order, then each URL and then each
\* video in first-seen order); no stage of a later item starts before the
\* previous item's chain has finished, and results entries appear in that
\* order.
C4_ItemOrder ==
  /\ [](IsEmail => FixedOrder /\ InItemOrder)
  /\ [][IsEmail => ChainsDoNotOverlap]_vars

\* A finished message whose video came first in the body: the URL was
\* processed before it, after the image group and the PDF.
C4_Witness ==
  /\ IsEmail /\ pc = "done"
  /\ Len(Items(parsed)) = 4
  /\ FirstIndex(BodyUrls[req.email], parsed.videos[1].data)
       < FirstIndex(BodyUrls[req.email], parsed.urls[1].data)
  /\ \A i \in 1..4 : \E j \in 1..Len(results) : results[j].item = i

ExternalStages ==
  {"extractFromMultipleImages", "extractFromPDF", "fetch", "extractFromHtml",
   "downloadVideo", "fetchVideoContent", "transcribeAudio", "extractFromTranscript"}

VideoChain ==
  <<"downloadVideo", "fetchVideoContent", "transcribeAudio", "extractFromTranscript",
    "createRecipe">>

CallsOf(i) == SelectSeq(calls, LAMBDA c : c.item = i)

OpCount(i, op) == Cardinality({j \in 1..Len(calls) : calls[j].item = i /\ calls[j].op = op})

FailuresOf(i) == {j \in 1..Len(results) : results[j].item = i /\ ~results[j].success}

\* The calls of a video item are a prefix of the video chain.
VideoOrder(i) ==
  LET cs == CallsOf(i)
  IN Len(cs) <= Len(VideoChain) /\ \A n \in 1..Len(cs) : cs[n].op = VideoChain[n]

\* A stage that failed is the last call of its item.
FailureEndsChain ==
  \A j \in 1..Len(calls) :
    calls[j].error # "" => \A n \in (j + 1)..Len(calls) : calls[n].item # calls[j].item

\* C5 as stated: for every item each external stage, the sink submission
\* included, is invoked at most once; the stages of a video run in the
\* order download, fetch, transcribe, extract, submit; a failed stage ends
\* the item's chain, with exactly one failure entry recorded for a video.
C5_Original ==
  IsEmail =>
    \A i \in 1..Len(Items(parsed)) :
      /\ \A op \in ExternalStages \cup {"createRecipe"} : OpCount(i, op) <= 1
      /\ Items(parsed)[i].kind = "video" => VideoOrder(i)
      /\ FailureEndsChain
      /\ (/\ Items(parsed)[i].kind = "video"
          /\ \E j \in 1..Len(calls) : calls[j].item = i /\ calls[j].error # "")
           => Cardinality(FailuresOf(i)) = 1

\* C5, amended: the sink is invoked at most once per extracted record (a
\* PDF item may have several), and a failed stage leaves exactly one failure
\* entry for the fault (a PDF item may also have entries for declined
\* records).
C5_StagesOnce ==
  IsEmail =>
    \A i \in 1..Len(Items(parsed)) :
      /\ \A op \in ExternalStages : OpCount(i, op) <= 1
      /\ \A j, n \in 1..Len(calls) :
           (/\ j # n
            /\ calls[j].item = i /\ calls[n].item = i
            /\ calls[j].op = "createRecipe" /\ calls[n].op = "createRecipe")
             => calls[j].record # calls[n].record
      /\ Items(parsed)[i].kind # "pdf" => OpCount(i, "createRecipe") <= 1
      /\ Items(parsed)[i].kind = "video" => VideoOrder(i)
      /\ FailureEndsChain
      /\ \A j \in 1..Len(calls) :
           (calls[j].item = i /\ calls[j].error # "") =>
             /\ Cardinality(FailureEntries(i, calls[j].error)) = 1
             /\ Items(parsed)[i].kind # "pdf" => Cardinality(FailuresOf(i)) = 1

\* A finished message with one video that ran its whole chain and one whose
\* transcription failed, its later stages never invoked.
C5_Witness ==
  /\ IsEmail /\ pc = "done"
  /\ \E i, j \in 1..Len(Items(parsed)) :
       /\ Items(parsed)[i].kind = "video" /\ Items(parsed)[j].kind = "video"
       /\ Len(CallsOf(i)) = Len(VideoChain)
       /\ Len(CallsOf(j)) = 3 /\ CallsOf(j)[3].error # ""
       /\ Cardinality(FailuresOf(j)) = 1

(***************************************************************************)
(* SpecUrl: extractFromURL applied to one URL, with the page the fetch     *)
(* answers and the reply of the generative service if it is asked.         *)
(***************************************************************************)

\* extractFromURL (lines 299-371): the calls made, in order, and the recipe
\* returned or the error thrown.
extractFromURL(url, page, reply) ==
  IF ~page.ok
  THEN [calls |-> <<"fetch">>, r |-> Threw("Failed to fetch URL: " \o page.status)]
  ELSE LET recipeFromSchema == SchemaLoop(page.blocks, 1, url, NotFound)
           r == ReplyRecipe(reply)
       IN IF CompleteSchema(recipeFromSchema)
          THEN [calls |-> <<"fetch">>, r |-> recipeFromSchema]
          ELSE [calls |-> <<"fetch", "extractFromHtml">>,
                r |-> IF r.kind = "throw" THEN r
                      ELSE Found(CompleteFromHtml(r.recipe, url, MetaImage(page)))]

MaxBlocks == 2

\* A Recipe node with a name and steps but no ingredients.
StepsOnlyNode ==
  Typed(S("Recipe"),
    [name |-> S("Toast"), recipeInstructions |-> Arr(<<S("Toast the bread.")>>)])

\* The texts of JSON-LD script blocks.
BlockPool ==
  <<<<Json(PieNode)>>, <<Json(SoupNode)>>, <<Json(StepsOnlyNode)>>,
    <<Json(PlaceholderComplete)>>, <<Json(PlaceholderNode)>>, <<Prose("not json")>>,
    <<Json(SiteNode)>>, <<Json(JNull)>>>>

\* An open-graph image tag written content first.
OgTagContentFirst(image) == <<Attr("content", image), Attr("property", "og:image")>>

\* The meta tags of a page: none, either image tag, both in either order,
\* an open-graph tag written content first with and without a twitter tag.
MetaPool ==
  {<<>>,
   <<OgTag("https://img.example.com/og.jpg")>>,
   <<TwitterTag("https://img.example.com/tw.jpg")>>,
   <<TwitterTag("https://img.example.com/tw.jpg"), OgTag("https://img.example.com/og.jpg")>>,
   <<OgTagContentFirst("https://img.example.com/og.jpg")>>,
   <<OgTagContentFirst("https://img.example.com/og.jpg"),
     TwitterTag("https://img.example.com/tw.jpg")>>}

PieWithImage ==
  Obj([name |-> S("Pie"), ingredients |-> S("2 apples"), directions |-> S("Bake."),
       image_url |-> S("https://img.example.com/pie.jpg"), source_url |-> S("elsewhere")])

\* A reply whose image_url is the empty string.
PieEmptyImage ==
  Obj([name |-> S("Pie"), ingredients |-> S("2 apples"), directions |-> S("Bake."),
       image_url |-> S("")])

UrlReplies ==
  SingleReplies \cup {Message(<<TextBlock(<<Json(PieWithImage)>>)>>),
                      Message(<<TextBlock(<<Json(PieEmptyImage)>>)>>)}

UrlInputs ==
  {[url |-> PageUrl,
    page |-> PageWith([k \in 1..Len(ks) |-> BlockPool[ks[k]]], meta),
    reply |-> reply] :
     ks \in SeqsUpTo(1..Len(BlockPool), MaxBlocks), meta \in MetaPool,
     reply \in UrlReplies}
  \cup
  {[url |-> PageUrl, page |-> [ok |-> FALSE, status |-> "404 Not Found"], reply |-> reply] :
     reply \in UrlReplies}

InitUrl ==
  /\ HandlerIdle
  /\ pc = "extractFromURL"
  /\ fin \in UrlInputs
  /\ fout = NoOutput

ExtractFromURLApply ==
  /\ pc = "extractFromURL"
  /\ LET out == extractFromURL(fin.url, fin.page, fin.reply)
     IN /\ fout' = out
        /\ pc' = IF out.r.kind = "throw" THEN "threw" ELSE "returned"
  /\ UNCHANGED <<handlerVars, fin>>

NextUrl == ExtractFromURLApply

SpecUrl == InitUrl /\ [][NextUrl]_vars

UrlEnded == pc \in {"returned", "threw"}

\* What the scan of the page's JSON-LD blocks leaves in recipeFromSchema.
SchemaOf(input) == SchemaLoop(input.page.blocks, 1, input.url, NotFound)

\* The scan left a record with a name but without ingredients or without
\* directions.
IncompleteSchema(input) ==
  /\ input.page.ok
  /\ SchemaOf(input).kind = "recipe"
  /\ Truthy(SchemaOf(input).recipe.name)
  /\ \/ SchemaOf(input).recipe.ingredients = S("")
     \/ SchemaOf(input).recipe.directions = S("")

\* C11: when structured-data extraction yields a record that has a name but
\* empty ingredients or empty directions, extractFromURL does not return that
\* record: it calls the generative service and the result comes from it.
C11_IncompleteFallsBack ==
  (UrlEnded /\ IncompleteSchema(fin)) =>
    /\ fout.calls = <<"fetch", "extractFromHtml">>
    /\ fout.r # SchemaOf(fin)
    /\ fout.r = (IF ReplyRecipe(fin.reply).kind = "throw" THEN ReplyRecipe(fin.reply)
                 ELSE Found(CompleteFromHtml(ReplyRecipe(fin.reply).recipe, fin.url,
                                             MetaImage(fin.page))))

\* A page whose only block has a name and ingredients but no steps, answered
\* by the generative service's recipe.
C11_Witness ==
  /\ pc = "returned"
  /\ fin.page.ok /\ fin.page.blocks = <<<<Json(SoupNode)>>>>
  /\ fout.calls = <<"fetch", "extractFromHtml">>
  /\ fout.r.recipe.name = S("Pie")

(***************************************************************************)
(* Reserved-name records in the email handler.                             *)
(***************************************************************************)

\* The records extracted for item i, in the order they were returned.
RecordsOfItem(i) ==
  LET cs == SelectSeq(CallsOf(i),
                      LAMBDA c : "records" \in DOMAIN c /\ c.records # <<>>)
  IN IF cs = <<>> THEN <<>> ELSE cs[1].records

DeclinePrefix == "Could not extract recipe from "

HasPrefix(s, p) == Len(s) >= Len(p) /\ SubSeq(s, 1, Len(p)) = p

HasSuffix(s, p) == Len(s) >= Len(p) /\ SubSeq(s, Len(s) - Len(p) + 1, Len(s)) = p

\* The results entries of item i that saveRecipe pushed for declined records.
DeclineEntries(i) ==
  SelectSeq(results, LAMBDA e : e.item = i /\ ~e.success /\ HasPrefix(e.error, DeclinePrefix))

\* The positions of the declined records among rs.
DeclinedAt(rs) == SelectSeq([k \in 1..Len(rs) |-> k], LAMBDA k : Declined(rs[k]))

\* Record k of item i was handed to saveRecipe: no submission of an earlier
\* record of the item failed.
ReachedSave(i, k) ==
  \A j \in 1..Len(calls) :
    (calls[j].item = i /\ calls[j].op = "createRecipe" /\ calls[j].error # "")
      => calls[j].record >= k

\* The outcome of the declined records at positions ks of item i: one
\* failure entry each, in order, ending with the record's notes; no success
\* entry under a reserved name, no submission of a declined record, and no
\* throw out of the handler.
DeclinedOutcome(i, ks) ==
  LET rs == RecordsOfItem(i)
      es == DeclineEntries(i)
  IN /\ ks # <<>> => thrown = Undef
     /\ Len(es) = Len(ks)
     /\ \A j \in 1..Len(ks) :
          j <= Len(es) => HasSuffix(es[j].error, ": " \o JsString(rs[ks[j]].notes))
     /\ \A j \in 1..Len(results) :
          (results[j].item = i /\ results[j].success)
            => results[j].recipeName \notin ReservedNames
     /\ \A j \in 1..Len(calls) :
          (calls[j].item = i /\ calls[j].op = "createRecipe")
            => ~Declined(calls[j].recipe)

\* C12 as stated: when the email handler has returned, every extracted
\* record named NO_RECIPE or UNREADABLE has exactly one failure entry whose
\* error carries the record's notes, no success entry and no submission,
\* and the handler did not throw.
C12_SentinelDeclined ==
  (IsEmail /\ pc = "done")
    => \A i \in 1..Len(Items(parsed)) :
         DeclinedOutcome(i, DeclinedAt(RecordsOfItem(i)))

\* C12 for the records that reach saveRecipe: when the email handler has
\* returned, every declined record handed to saveRecipe has exactly one
\* failure entry whose error carries its notes, no success entry and no
\* submission, and the handler did not throw.
C12_WhenSaved ==
  (IsEmail /\ pc = "done")
    => \A i \in 1..Len(Items(parsed)) :
         DeclinedOutcome(i, SelectSeq(DeclinedAt(RecordsOfItem(i)),
                                      LAMBDA k : ReachedSave(i, k)))

\* A PDF whose second record is declined after the first was submitted.
C12_WhenSaved_Witness ==
  /\ IsEmail /\ pc = "done"
  /\ \E i \in 1..Len(Items(parsed)) :
       /\ Len(RecordsOfItem(i)) = 2
       /\ Declined(RecordsOfItem(i)[2])
       /\ ReachedSave(i, 2)
       /\ Len(DeclineEntries(i)) = 1

(***************************************************************************)
(* The image group of a message.                                           *)
(***************************************************************************)

\* The sentence that asks for one recipe out of several images (line 167).
MergeInstruction == "Combine all the information into a single recipe."

ImageCalls == SelectSeq(calls, LAMBDA c : c.op = "extractFromMultipleImages")

\* C13: when the email handler has returned for a message with n >= 1
\* images, exactly one generative call was made for the images and its
\* request holds all n of them in order; the images have exactly one
\* results entry and at most one sink submission; and the prompt holds the
\* merge instruction exactly when n > 1.
C13_ImagesAsOneRecipe ==
  (IsEmail /\ pc = "done" /\ Len(parsed.images) >= 1)
    => LET n == Len(parsed.images)
       IN /\ Items(parsed)[1].kind = "images"
          /\ Len(ImageCalls) = 1
          /\ ImageCalls[1].item = 1
          /\ Len(ImageCalls[1].request.images) = n
          /\ \A k \in 1..n :
               ImageCalls[1].request.images[k].data = parsed.images[k].data
          /\ Len(SelectSeq(results, LAMBDA e : e.item = 1)) = 1
          /\ Len(SelectSeq(CallsOf(1), LAMBDA c : c.op = "createRecipe")) <= 1
          /\ Includes(ImageCalls[1].request.prompt, MergeInstruction) <=> n > 1

\* Two images went out in one request and became one saved recipe.
C13_Witness ==
  /\ IsEmail /\ pc = "done" /\ Len(parsed.images) = 2
  /\ Len(ImageCalls) = 1
  /\ Len(ImageCalls[1].request.images) = 2
  /\ Includes(ImageCalls[1].request.prompt, MergeInstruction)
  /\ \E j \in 1..Len(results) : results[j].item = 1 /\ results[j].success

(***************************************************************************)
(* The records of a PDF.                                                   *)
(***************************************************************************)

\* The email handler's calls of extractFromPDF.
PdfCalls ==
  {j \in 1..Len(calls) : calls[j].op = "extractFromPDF" /\ calls[j].item > 0}

\* The value a reply's text denotes when the text is one JSON text.
ReplyJson(reply) ==
  IF reply.kind # "message" THEN JUndef
  ELSE LET textBlock == FindTextBlock(reply.content)
       IN IF textBlock.type = "text" /\ JSONParse(textBlock.text).kind = "parsed"
          THEN JSONParse(textBlock.text).v
          ELSE JUndef

IsObjectArray(v) == IsArray(v) /\ \A k \in 1..Len(v.a) : v.a[k].t = "object"

\* The positions of the records of rs that saveRecipe submits.
DeclinedAtComplement(rs) ==
  SelectSeq([k \in 1..Len(rs) |-> k], LAMBDA k : ~Declined(rs[k]))

\* The submissions made for item i, in order.
SinkCallsOf(i) == SelectSeq(CallsOf(i), LAMBDA c : c.op = "createRecipe")

SuccessesOf(i) == SelectSeq(results, LAMBDA e : e.item = i /\ e.success)

\* C14: extractFromPDF on a reply that is a JSON array of N objects returns
\* N records in the array's order, each the validateRecipe of its object,
\* and on a bare object returns exactly one record; and when the handler
\* has returned and every submission made for a PDF succeeded, the sink was
\* called exactly once for each returned record without a reserved name, in
\* order, with one success entry each.
C14_PdfRecords ==
  /\ \A j \in PdfCalls :
       LET v == ReplyJson(calls[j].reply)
       IN /\ IsObjectArray(v)
               => /\ calls[j].error = ""
                  /\ Len(calls[j].records) = Len(v.a)
                  /\ \A k \in 1..Len(v.a) :
                       calls[j].records[k] = validateRecipe(v.a[k])
          /\ v.t = "object"
               => /\ calls[j].error = ""
                  /\ calls[j].records = <<validateRecipe(v)>>
  /\ (IsEmail /\ pc = "done")
       => \A j \in PdfCalls :
            LET i == calls[j].item
                valid == SelectSeq(calls[j].records, LAMBDA r : ~Declined(r))
            IN (\A k \in 1..Len(SinkCallsOf(i)) : SinkCallsOf(i)[k].error = "")
                 => /\ Len(SinkCallsOf(i)) = Len(valid)
                    /\ \A k \in 1..Len(valid) :
                         /\ SinkCallsOf(i)[k].recipe = valid[k]
                         /\ SinkCallsOf(i)[k].record
                              = DeclinedAtComplement(calls[j].records)[k]
                    /\ Len(SuccessesOf(i)) = Len(valid)

\* A PDF whose reply is an array of two valid objects: two records, two
\* submissions, two success entries.
C14_Witness ==
  /\ IsEmail /\ pc = "done"
  /\ \E j \in PdfCalls :
       /\ IsObjectArray(ReplyJson(calls[j].reply))
       /\ Len(calls[j].records) = MaxPdfRecipes
       /\ \A k \in 1..MaxPdfRecipes : ~Declined(calls[j].records[k])
       /\ Len(SinkCallsOf(calls[j].item)) = MaxPdfRecipes
       /\ Len(SuccessesOf(calls[j].item)) = MaxPdfRecipes

(***************************************************************************)
(* claude.ts, extractFromURL: the HTML handed to the generative service.   *)
(***************************************************************************)

\* Line 351: the character budget of the HTML in the request.
HtmlBudget == 50000

\* Line 351: what is appended to HTML that was cut.
TruncationMarker == "..."

\* Line 47: the URL prompt (its first sentence stands for the whole
\* template).
URL_RECIPE_PROMPT ==
  "Extract the recipe from this webpage content. Return ONLY valid JSON with no additional text or markdown formatting."

\* truncatedHtml with the cut but without the marker.
truncatedHtml_NoMarker(html) ==
  IF Len(html) > HtmlBudget THEN Substring(html, 0, HtmlBudget) ELSE html

\* Line 351.
truncatedHtml(html) ==
  IF Len(html) > HtmlBudget
  THEN Substring(html, 0, HtmlBudget) \o TruncationMarker
  ELSE html

\* Lines 353-362: the one user message of the request.
HtmlRequest(url, html) ==
  [role |-> "user",
   content |-> "Here is the HTML content from " \o url \o ":\n\n"
                 \o truncatedHtml(html) \o "\n\n" \o URL_RECIPE_PROMPT]

\* How far around the budget the lengths of the pages range.
MaxHtmlOver == 3

RECURSIVE Repeat(_, _)
\* unit repeated until at least n characters long (n >= 1).
Repeat(unit, n) ==
  IF Len(unit) >= n THEN unit ELSE Repeat(unit \o unit, n)

\* The page of n characters made of unit.
HtmlOfLength(unit, n) == IF n = 0 THEN "" ELSE SubSeq(Repeat(unit, n), 1, n)

HtmlUnits == {"a", "<p>Loading...</p>", "."}

HtmlLengths ==
  {0, 1, 2 * HtmlBudget}
    \cup {HtmlBudget - d : d \in 0..MaxHtmlOver}
    \cup {HtmlBudget + d : d \in 1..MaxHtmlOver}

HtmlInputs ==
  {[url |-> url, html |-> HtmlOfLength(unit, n)] :
     url \in {PageUrl, "https://x.example/r"}, unit \in HtmlUnits, n \in HtmlLengths}

InitHtml ==
  /\ HandlerIdle
  /\ pc = "extractFromHtml"
  /\ fin \in HtmlInputs
  /\ fout = NoOutput

HtmlRequestApply ==
  /\ pc = "extractFromHtml"
  /\ fout' = HtmlRequest(fin.url, fin.html)
  /\ pc' = "sent"
  /\ UNCHANGED <<handlerVars, fin>>

NextHtml == HtmlRequestApply

SpecHtml == InitHtml /\ [][NextHtml]_vars

\* What stands before and after the HTML in the message.
HtmlHeader(url) == "Here is the HTML content from " \o url \o ":\n\n"

HtmlFooter == "\n\n" \o URL_RECIPE_PROMPT

\* The HTML portion of a sent message: what stands between the header and
\* the footer.
HtmlPortion(url, content) ==
  SubSeq(content, Len(HtmlHeader(url)) + 1, Len(content) - Len(HtmlFooter))

\* C15: the message always has the header, an HTML portion and the prompt;
\* for HTML longer than the budget the portion is the first 50,000
\* characters followed by the marker and nothing else, so the marker is
\* appended once, at the end; for HTML within the budget the portion is the
\* HTML itself with nothing appended.
C15_HtmlTruncation ==
  pc = "sent" =>
    LET portion == HtmlPortion(fin.url, fout.content)
        n == Len(fin.html)
    IN /\ HasPrefix(fout.content, HtmlHeader(fin.url))
       /\ HasSuffix(fout.content, HtmlFooter)
       /\ n > 50000
            => /\ Len(portion) = 50000 + Len(TruncationMarker)
               /\ SubSeq(portion, 1, 50000) = SubSeq(fin.html, 1, 50000)
               /\ SubSeq(portion, 50001, Len(portion)) = "..."
       /\ n <= 50000 => portion = fin.html

\* A page one character over the budget was cut and marked.
C15_Witness ==
  /\ pc = "sent"
  /\ Len(fin.html) = 50001
  /\ Len(HtmlPortion(fin.url, fout.content)) = 50003
  /\ HasSuffix(HtmlPortion(fin.url, fout.content), "a...")

(***************************************************************************)
(* image_url of the records handed downstream.                             *)
(***************************************************************************)

\* C16 as stated, for extractFromURL: the record it returns, by the
\* structured-data path or by the generative path, never has the empty
\* string as image_url.
C16_ImageUrlNeverEmpty ==
  pc = "returned" => fout.r.recipe.image_url # S("")

\* C16 for the generative path alone (holds; not the claim): a record
\* that went through validateRecipe has image_url absent or a non-empty
\* string, also when the reply gave the empty string and the page has no
\* image meta tag.
C16_GenerativePath ==
  (pc = "returned" /\ fout.calls = <<"fetch", "extractFromHtml">>)
    => /\ fout.r.recipe.image_url # S("")
       /\ fout.r.recipe.image_url = JUndef \/ IsString(fout.r.recipe.image_url)

\* The reply's empty image_url became absent.
C16_GenerativePath_Witness ==
  /\ pc = "returned" /\ fout.calls = <<"fetch", "extractFromHtml">>
  /\ fin.reply = Message(<<TextBlock(<<Json(PieEmptyImage)>>)>>)
  /\ MetaImage(fin.page) = ""
  /\ fout.r.recipe.image_url = JUndef

(***************************************************************************)
(* claude.ts: validateRecipe on parsed JSON objects.                       *)
(***************************************************************************)

\* The fields validateRecipe reads (lines 545-554).
RecipeKeys ==
  {"name", "ingredients", "directions", "prep_time", "cook_time", "servings",
   "source", "source_url", "notes", "image_url"}

TextKeys == RecipeKeys \ {"image_url"}

\* How many fields of an object differ from its base.
MaxVaried == 1

\* A field left out of the object.
Absent == [t |-> "absent"]

\* JSON values of every type.
FieldValues ==
  {S(""), S("Tart"), N(0), N(8), JNull, B(FALSE), B(TRUE),
   Arr(<<S("2 apples")>>), Obj([text |-> S("Bake.")])}

\* The object over base ("empty": no field; "full": every field a text)
\* with the fields of over set, or left out where over says Absent.
VariedObject(base, over) ==
  LET keys == IF base = "full"
              THEN RecipeKeys \ {k \in DOMAIN over : over[k] = Absent}
              ELSE {k \in DOMAIN over : over[k] # Absent}
  IN Obj([k \in keys |-> IF k \in DOMAIN over THEN over[k] ELSE S("text of " \o k)])

ValidateInputs ==
  {VariedObject(base, over) :
     base \in {"empty", "full"},
     over \in UNION {[ks -> FieldValues \cup {Absent}] :
                       ks \in {x \in SUBSET RecipeKeys : Cardinality(x) <= MaxVaried}}}

InitValidate ==
  /\ HandlerIdle
  /\ pc = "validateRecipe"
  /\ fin \in ValidateInputs
  /\ fout = NoOutput

ValidateRecipeApply ==
  /\ pc = "validateRecipe"
  /\ fout' = validateRecipe(fin)
  /\ pc' = "validated"
  /\ UNCHANGED <<handlerVars, fin>>

NextValidate == ValidateRecipeApply

SpecValidate == InitValidate /\ [][NextValidate]_vars

\* C17 as stated: validateRecipe gives the name "Untitled Recipe" only to
\* an object without a name field; a name that is present is returned
\* unchanged.
C17_PlaceholderOnlyWhenAbsent ==
  pc = "validated" =>
    IF "name" \in DOMAIN fin.f
    THEN fout.name = fin.f.name
    ELSE fout.name = S("Untitled Recipe")

\* What holds of the name (not the claim): a truthy name is returned
\* unchanged; an absent or falsy one becomes the placeholder.
C17_PlaceholderWhenFalsy ==
  pc = "validated" =>
    IF "name" \in DOMAIN fin.f /\ Truthy(fin.f.name)
    THEN fout.name = fin.f.name
    ELSE fout.name = S("Untitled Recipe")

\* An empty name was replaced.
C17_PlaceholderWhenFalsy_Witness ==
  /\ pc = "validated"
  /\ "name" \in DOMAIN fin.f /\ fin.f.name = S("")
  /\ fout.name = S("Untitled Recipe")

\* C18 as stated: in validateRecipe's result name, ingredients, directions,
\* prep_time, cook_time, servings, source, source_url and notes are all
\* present and each is a string; image_url alone may be absent.
C18_TextFieldsAreStrings ==
  pc = "validated" =>
    /\ DOMAIN fout = RecipeKeys
    /\ \A k \in TextKeys : IsString(fout[k])

\* What holds of the fields (not the claim): each of the nine is present,
\* and is a string whenever the input's field is a string or is falsy.
C18_FalsyFieldsBecomeStrings ==
  pc = "validated" =>
    /\ DOMAIN fout = RecipeKeys
    /\ \A k \in TextKeys :
         /\ fout[k] \notin {JUndef, JNull}
         /\ (k \notin DOMAIN fin.f \/ IsString(fin.f[k]) \/ ~Truthy(fin.f[k]))
              => IsString(fout[k])

\* A null field became the empty string.
C18_FalsyFieldsBecomeStrings_Witness ==
  /\ pc = "validated"
  /\ "notes" \in DOMAIN fin.f /\ fin.f.notes = JNull
  /\ fout.notes = S("")

(***************************************************************************)
(* Classification of the body's URLs (checked under SpecParse).            *)
(***************************************************************************)

\* The classes the parser has put the cleaned URL u in.
ClassesOf(u) ==
  {"video" : k \in {k \in 1..Len(fout.videos) :
                      /\ fout.videos[k].data = u
                      /\ fout.videos[k].platform \in {"tiktok", "instagram"}}}
    \cup {"recipe" : k \in {k \in 1..Len(fout.urls) : fout.urls[k].data = u}}
    \cup {"rejected" : k \in {k \in 1..1 :
                                /\ \A j \in 1..Len(fout.videos) : fout.videos[j].data # u
                                /\ \A j \in 1..Len(fout.urls) : fout.urls[j].data # u}}

\* C19 as stated: whatever URLs the body of a well-formed message holds,
\* parseEmailContent does not throw, and every cleaned URL is in exactly
\* one class: video with a platform, recipe candidate, or rejected.
C19_ClassificationTotal ==
  (ParseEnded /\ ~fin.malformed)
    => /\ pc = "returned"
       /\ \A k \in 1..Len(CleanedUrls) : Cardinality(ClassesOf(CleanedUrls[k])) = 1

\* C19 for bodies in which no URL reaches a throwing URL constructor
\* (holds; not the claim).
C19_WhenConstructorAccepts ==
  (ParseEnded /\ ~fin.malformed
     /\ \A k \in 1..Len(CleanedUrls) :
          detectVideoPlatform(CleanedUrls[k]) # Null
            \/ ~isLikelyRecipeUrlThrows(CleanedUrls[k]))
    => /\ pc = "returned"
       /\ \A k \in 1..Len(CleanedUrls) : Cardinality(ClassesOf(CleanedUrls[k])) = 1

\* A body with a video, a recipe candidate and a rejected homepage.
C19_WhenConstructorAccepts_Witness ==
  /\ pc = "returned" /\ ~fin.malformed
  /\ \E a, b, c \in 1..Len(CleanedUrls) :
       /\ ClassesOf(CleanedUrls[a]) = {"video"}
       /\ ClassesOf(CleanedUrls[b]) = {"recipe"}
       /\ ClassesOf(CleanedUrls[c]) = {"rejected"}

(***************************************************************************)
(* email-parser.ts: isLikelyRecipeUrl applied to one URL.                  *)
(***************************************************************************)

\* The outcome of a call of isLikelyRecipeUrl: its value, or the TypeError
\* of the URL constructor.
isLikelyRecipeUrlOutcome(url) ==
  IF isLikelyRecipeUrlThrows(url) THEN Threw("TypeError: Invalid URL")
  ELSE [kind |-> "value", value |-> isLikelyRecipeUrl(url)]

UrlSchemes == {"https://", "http://", "HTTPS://"}

UrlHosts ==
  {"www.allrecipes.com", "example.com", "www.Facebook.com", "blog.example.org:port", ""}

UrlPaths ==
  {"", "/", "/recipe/1", "/post/42", "/LOGIN", "/Cook/terms", "/?q=1", "/a/../"}

\* URLs as the pattern yields them, cleaned.
RecipeUrlInputs ==
  {CleanUrl(scheme \o host \o path) :
     scheme \in UrlSchemes, host \in UrlHosts, path \in UrlPaths}

InitRecipeUrl ==
  /\ HandlerIdle
  /\ pc = "isLikelyRecipeUrl"
  /\ fin \in RecipeUrlInputs
  /\ fout = NoOutput

IsLikelyRecipeUrlApply ==
  /\ pc = "isLikelyRecipeUrl"
  /\ LET out == isLikelyRecipeUrlOutcome(fin)
     IN /\ fout' = out
        /\ pc' = IF out.kind = "throw" THEN "threw" ELSE "returned"
  /\ UNCHANGED <<handlerVars, fin>>

NextRecipeUrl == IsLikelyRecipeUrlApply

SpecRecipeUrl == InitRecipeUrl /\ [][NextRecipeUrl]_vars

RecipeUrlEnded == pc \in {"returned", "threw"}

\* What the rules, taken in the stated order, say of url.
RuleOrderVerdict(url) ==
  LET lowerUrl == ToLowerCase(url)
  IN IF \E i \in 1..Len(skipPatterns) : Includes(lowerUrl, skipPatterns[i]) THEN FALSE
     ELSE IF \E i \in 1..Len(RECIPE_DOMAINS) : Includes(lowerUrl, RECIPE_DOMAINS[i]) THEN TRUE
     ELSE IF \E i \in 1..Len(recipeKeywords) : Includes(lowerUrl, recipeKeywords[i]) THEN TRUE
     ELSE \E i \in 1..Len(UrlPathParts(url)) : UrlPathParts(url)[i] # ""

\* C20 as stated: isLikelyRecipeUrl returns what the rules say in their
\* order: block list rejects, else recipe domain accepts, else keyword
\* accepts, else accepted exactly when the path has a non-empty segment.
C20_RuleOrder ==
  RecipeUrlEnded => (pc = "returned" /\ fout.value = RuleOrderVerdict(fin))

\* C20 for the calls that return (holds; not the claim): the value is what
\* the rules say in their order, and the call throws only when the first
\* three rules leave the URL to the URL constructor.
C20_RuleOrderWhenReturned ==
  /\ pc = "returned" => fout.value = RuleOrderVerdict(fin)
  /\ pc = "threw" => RecipeUrlRule(fin) = "default"

\* A block-listed page of a recipe domain is rejected.
C20_RuleOrderWhenReturned_Witness ==
  /\ pc = "returned"
  /\ Includes(ToLowerCase(fin), "allrecipes.com")
  /\ Includes(ToLowerCase(fin), "login")
  /\ fout.value = FALSE

(***************************************************************************)
(* Values that are no array, no Recipe node and no graph wrapper (checked  *)
(* under SpecJsonLd).                                                      *)
(***************************************************************************)

\* v is not an array, not a Recipe-tagged object and not an object with a
\* truthy @graph.
OtherValue(v) ==
  /\ ~IsArray(v)
  /\ ~(v.t = "object" /\ isRecipe(v))
  /\ ~(v.t = "object" /\ Truthy(Get(v, "@graph")))

\* C21 as stated: such a value resolves to "not a recipe" without an error,
\* and an array [v, R] of such a value and a named Recipe node R resolves
\* to R's data.
C21_OtherValuesAreNotRecipes ==
  JsonLdEnded =>
    /\ OtherValue(fin) => (pc = "returned" /\ fout = NotFound)
    /\ (IsArray(fin) /\ Len(fin.a) = 2 /\ OtherValue(fin.a[1]) /\ fin.a[2] = PieNode)
         => (pc = "returned" /\ fout = RecipeFields(PieNode, PageUrl))

\* C21 for values other than null (holds; not the claim).
C21_NonNullValues ==
  JsonLdEnded =>
    /\ (OtherValue(fin) /\ fin # JNull) => (pc = "returned" /\ fout = NotFound)
    /\ (IsArray(fin) /\ Len(fin.a) = 2 /\ OtherValue(fin.a[1]) /\ fin.a[1] # JNull
          /\ fin.a[2] = PieNode)
         => (pc = "returned" /\ fout = RecipeFields(PieNode, PageUrl))

\* A string before a Recipe node was passed over.
C21_NonNullValues_Witness ==
  /\ pc = "returned"
  /\ fin = Arr(<<S("text"), PieNode>>)
  /\ fout.kind = "recipe" /\ fout.recipe.name = S("Pie")

\* The page's scan goes on after a block that holds only null (checked
\* under SpecUrl; holds, the block loop catches the error).
C21_BlockScanContinues ==
  (UrlEnded /\ fin.page.ok /\ Len(fin.page.blocks) = 2
     /\ fin.page.blocks[1] = <<Json(JNull)>> /\ fin.page.blocks[2] = <<Json(PieNode)>>)
    => fout.r = RecipeFields(PieNode, fin.url) /\ fout.calls = <<"fetch">>

(***************************************************************************)
(* When extractFromURL answers from structured data (checked under         *)
(* SpecUrl).                                                               *)
(***************************************************************************)

\* What a block yields on its own: a record, nothing, or an error.
BlockYield(input, i) ==
  LET parsedBlock == JSONParse(input.page.blocks[i])
  IN IF parsedBlock.kind = "throw" THEN parsedBlock
     ELSE extractRecipeFromJsonLd(parsedBlock.v, input.url)

\* The blocks that yield a record with a non-placeholder name.
NamedBlocks(input) ==
  {i \in 1..Len(input.page.blocks) : Usable(BlockYield(input, i))}

\* The record of the first such block is complete.
FirstNamedIsComplete(input) ==
  /\ NamedBlocks(input) # {}
  /\ LET i == CHOOSE i \in NamedBlocks(input) : \A j \in NamedBlocks(input) : i <= j
         r == BlockYield(input, i).recipe
     IN r.ingredients # S("") /\ r.directions # S("")

\* C22 as stated: after a successful fetch, extractFromURL returns a
\* structured record without the generative call only if the record has a
\* non-placeholder name, ingredients and directions, and it is the record
\* of the first block that yields a non-placeholder name; in every other
\* case the generative service is called exactly once.
C22_StructuredOnlyWhenComplete ==
  (UrlEnded /\ fin.page.ok) =>
    IF FirstNamedIsComplete(fin)
    THEN /\ fout.calls = <<"fetch">>
         /\ fout.r = BlockYield(fin, CHOOSE i \in NamedBlocks(fin) :
                                       \A j \in NamedBlocks(fin) : i <= j)
         /\ fout.r.recipe.name # S("NO_RECIPE")
    ELSE fout.calls = <<"fetch", "extractFromHtml">>

\* The scan ended on a placeholder-named record that has ingredients and
\* directions.
PlaceholderLeft(input) ==
  /\ SchemaOf(input).kind = "recipe"
  /\ SchemaOf(input).recipe.name = S("NO_RECIPE")
  /\ CompleteSchema(SchemaOf(input))

\* C22 for pages whose scan does not end on a complete placeholder-named
\* record (holds; not the claim).
C22_WithoutPlaceholderLeft ==
  (UrlEnded /\ fin.page.ok /\ ~PlaceholderLeft(fin)) =>
    IF FirstNamedIsComplete(fin)
    THEN /\ fout.calls = <<"fetch">>
         /\ fout.r = BlockYield(fin, CHOOSE i \in NamedBlocks(fin) :
                                       \A j \in NamedBlocks(fin) : i <= j)
         /\ fout.r.recipe.name # S("NO_RECIPE")
    ELSE fout.calls = <<"fetch", "extractFromHtml">>

\* An incomplete named block stopped the scan before a complete one, and
\* the generative service was called.
C22_WithoutPlaceholderLeft_Witness ==
  /\ pc = "returned" /\ fin.page.ok
  /\ fin.page.blocks = <<<<Json(SoupNode)>>, <<Json(PieNode)>>>>
  /\ fout.calls = <<"fetch", "extractFromHtml">>

(***************************************************************************)
(* claude.ts: the parsing of a reply's text, for texts that mix prose and  *)
(* JSON.                                                                   *)
(***************************************************************************)

MaxSegments == 3

TartRecipe ==
  Obj([name |-> S("Tart"), ingredients |-> S("3 plums"), directions |-> S("Bake.")])

\* A recipe whose ingredients are a JSON array.
ListRecipe ==
  Obj([name |-> S("Stew"), ingredients |-> Arr(<<S("1 leek")>>), directions |-> S("Boil.")])

SegmentPool ==
  <<Prose("Here is the recipe:"), Json(PieRecipe), Json(TartRecipe), Json(ListRecipe),
    Json(Arr(<<PieRecipe, TartRecipe>>))>>

ReplyInputs ==
  {Message(<<TextBlock([k \in 1..Len(ks) |-> SegmentPool[ks[k]]])>>) :
     ks \in SeqsUpTo(1..Len(SegmentPool), MaxSegments)}

InitReply ==
  /\ HandlerIdle
  /\ pc \in {"parseRecipeResponse", "extractFromPDF"}
  /\ fin \in ReplyInputs
  /\ fout = NoOutput

ParseRecipeResponseApply ==
  /\ pc = "parseRecipeResponse"
  /\ fout' = parseRecipeResponse(fin)
  /\ pc' = "parsed one"
  /\ UNCHANGED <<handlerVars, fin>>

ParsePdfResponseApply ==
  /\ pc = "extractFromPDF"
  /\ fout' = ParsePdfResponse(fin)
  /\ pc' = "parsed all"
  /\ UNCHANGED <<handlerVars, fin>>

NextReply == ParseRecipeResponseApply \/ ParsePdfResponseApply

SpecReply == InitReply /\ [][NextReply]_vars

\* The segments of the reply's text.
ReplySegs == fin.content[1].text

\* The text is not one JSON text.
NotPureJson == JSONParse(ReplySegs).kind = "throw"

\* The JSON segments of the text that are objects, and those that are
\* objects or arrays, in text order.
ObjectSegs == SelectSeq(ReplySegs, LAMBDA g : g.k = "json" /\ g.v.t = "object")

SpanSegs ==
  SelectSeq(ReplySegs, LAMBDA g : g.k = "json" /\ g.v.t \in {"object", "array"})

\* The records of a JSON array or object, as extractFromPDF returns them.
RecordsOfSpan(v) ==
  IF IsArray(v) THEN [i \in 1..Len(v.a) |-> validateRecipe(v.a[i])]
  ELSE <<validateRecipe(v)>>

\* C23 as stated: when the text is not pure JSON but holds a valid JSON
\* object (for extractFromPDF: array or object) among prose,
\* parseRecipeResponse returns the record of the first such object and
\* extractFromPDF the records of the first such array or object; they throw
\* only when the text holds no such span.
C23_FirstValidSpan ==
  /\ (pc = "parsed one" /\ NotPureJson)
       => IF ObjectSegs # <<>>
          THEN fout = Found(validateRecipe(ObjectSegs[1].v))
          ELSE fout.kind = "throw"
  /\ (pc = "parsed all" /\ NotPureJson)
       => IF SpanSegs # <<>>
          THEN fout = Recipes(RecordsOfSpan(SpanSegs[1].v))
          ELSE fout.kind = "throw"

\* The text holds exactly one JSON segment, an object without an array
\* inside or (for extractFromPDF) an array, and prose around it.
OneSpan ==
  /\ Len(SpanSegs) = 1
  /\ SpanSegs[1].v.t = "object" => ~HasBracket(SpanSegs[1].v)
  /\ pc = "parsed one" => SpanSegs[1].v.t = "object"

\* C23 for texts with one JSON span among prose (holds; not the claim).
C23_OneSpanAmongProse ==
  /\ (pc = "parsed one" /\ NotPureJson /\ OneSpan)
       => fout = Found(validateRecipe(SpanSegs[1].v))
  /\ (pc = "parsed all" /\ NotPureJson /\ OneSpan)
       => fout = Recipes(RecordsOfSpan(SpanSegs[1].v))
  /\ (pc \in {"parsed one", "parsed all"} /\ NotPureJson /\ SpanSegs = <<>>)
       => fout.kind = "throw"

\* An array between two pieces of prose gave its two records.
C23_OneSpanAmongProse_Witness ==
  /\ pc = "parsed all"
  /\ ReplySegs = <<SegmentPool[1], SegmentPool[5], SegmentPool[1]>>
  /\ fout.kind = "recipes" /\ Len(fout.recipes) = 2

\* Two objects after prose: the span from the first brace to the last is
\* not JSON, and parseRecipeResponse throws.
C23_TwoObjectsThrow ==
  /\ pc = "parsed one"
  /\ ReplySegs = <<SegmentPool[1], SegmentPool[2], SegmentPool[3]>>
  /\ fout = Threw(SyntaxError)

\* Prose before an object that holds an array: extractFromPDF returns the
\* record of the array's element, not of the object.
C23_InnerArrayTaken ==
  /\ pc = "parsed all"
  /\ ReplySegs = <<SegmentPool[1], SegmentPool[4]>>
  /\ fout = Recipes(<<validateRecipe(S("1 leek"))>>)

(***************************************************************************)
(* The records of one PDF after a failed submission.                       *)
(***************************************************************************)

\* C24 as stated: when the email handler has returned, every record of a
\* PDF that has no reserved name was submitted to the sink, whether or not
\* the submission of an earlier record of the same PDF failed.
C24_IndependentSubmission ==
  (IsEmail /\ pc = "done")
    => \A j \in PdfCalls :
         \A k \in 1..Len(calls[j].records) :
           ~Declined(calls[j].records[k])
             => \E c \in 1..Len(calls) :
                  /\ calls[c].op = "createRecipe"
                  /\ calls[c].item = calls[j].item
                  /\ calls[c].record = k

\* What holds instead (not the claim): the records of a PDF are submitted
\* in order up to the first failed submission, and none after it.
C24_StopsAtFirstFailure ==
  (IsEmail /\ pc = "done")
    => \A j \in PdfCalls :
         LET sink == SinkCallsOf(calls[j].item)
             valid == DeclinedAtComplement(calls[j].records)
         IN /\ Len(sink) <= Len(valid)
            /\ \A k \in 1..Len(sink) :
                 /\ sink[k].record = valid[k]
                 /\ k < Len(sink) => sink[k].error = ""
            /\ Len(sink) < Len(valid) => sink # <<>> /\ sink[Len(sink)].error # ""

\* The first of two valid records failed at the sink and the second was
\* never submitted.
C24_StopsAtFirstFailure_Witness ==
  /\ IsEmail /\ pc = "done"
  /\ \E j \in PdfCalls :
       /\ Len(calls[j].records) = 2
       /\ \A k \in 1..2 : ~Declined(calls[j].records[k])
       /\ Len(SinkCallsOf(calls[j].item)) = 1
       /\ SinkCallsOf(calls[j].item)[1].error # ""

(***************************************************************************)
(* claude.ts: extractFromTranscript applied to one transcript.             *)
(***************************************************************************)

\* Line 69: the transcript prompt (its first sentence stands for the whole
\* template).
TRANSCRIPT_RECIPE_PROMPT ==
  "Extract the recipe from this video content. You have been given:"

\* Lines 215-221: the content of the request.
TranscriptContent(transcript, caption) ==
  "## Audio Transcript (what the person says in the video):\n\n" \o transcript
    \o (IF caption # Undef /\ caption # ""
        THEN "\n\n## Video Caption/Description (text written by creator):\n\n" \o caption
        ELSE "")
    \o "\n\n" \o TRANSCRIPT_RECIPE_PROMPT

\* extractFromTranscript with the service's reply: the content sent, and
\* the recipe returned or the error thrown.
extractFromTranscript(transcript, sourceUrl, authorName, caption, reply) ==
  LET r == ReplyRecipe(reply)
  IN [content |-> TranscriptContent(transcript, caption),
      r |-> IF r.kind = "throw" THEN r
            ELSE Found(CompleteFromTranscript(r.recipe, sourceUrl, authorName))]

\* A reply that names its own source and source URL.
PieFromGran ==
  Obj([name |-> S("Pie"), ingredients |-> S("2 apples"), directions |-> S("Bake."),
       source |-> S("Gran"), source_url |-> S("https://elsewhere.example/pie"),
       image_url |-> S("https://img.example.com/pie.jpg")])

\* A reply whose source is empty and one whose source is a number.
PieNoSource ==
  Obj([name |-> S("Pie"), source |-> S(""), source_url |-> S("https://elsewhere.example/pie")])

PieNumberSource == Obj([name |-> S("Pie"), source |-> N(7)])

TranscriptReplies ==
  SingleReplies \cup {Message(<<TextBlock(<<Json(PieFromGran)>>)>>),
                      Message(<<TextBlock(<<Json(PieNoSource)>>)>>),
                      Message(<<TextBlock(<<Json(PieNumberSource)>>)>>)}

TranscriptInputs ==
  {[transcript |-> "Peel the apples and bake.", sourceUrl |-> u, authorName |-> a,
    caption |-> c, reply |-> reply] :
     u \in {"https://www.tiktok.com/@chef/video/7", "https://www.instagram.com/reel/abc"},
     a \in {Undef, "", "chef"}, c \in {Undef, "Apple pie"}, reply \in TranscriptReplies}

InitTranscript ==
  /\ HandlerIdle
  /\ pc = "extractFromTranscript"
  /\ fin \in TranscriptInputs
  /\ fout = NoOutput

ExtractFromTranscriptApply ==
  /\ pc = "extractFromTranscript"
  /\ LET out == extractFromTranscript(fin.transcript, fin.sourceUrl, fin.authorName,
                                      fin.caption, fin.reply)
     IN /\ fout' = out
        /\ pc' = IF out.r.kind = "throw" THEN "threw" ELSE "returned"
  /\ UNCHANGED <<handlerVars, fin>>

NextTranscript == ExtractFromTranscriptApply

SpecTranscript == InitTranscript /\ [][NextTranscript]_vars

\* The generative result as normalized, before extractFromTranscript
\* completes it.
Normalized == ReplyRecipe(fin.reply).recipe

AuthorReported == fin.authorName # Undef /\ fin.authorName # ""

\* C25: the record extractFromTranscript returns has the input URL as
\* source_url whatever the reply gave; its source is the reported author
\* when the normalized source is empty and an author was reported, and the
\* normalized source otherwise; every other field is as normalized.
C25_TranscriptFrame ==
  pc = "returned" =>
    LET out == fout.r.recipe
    IN /\ out.source_url = S(fin.sourceUrl)
       /\ out.source = (IF Normalized.source = S("") /\ AuthorReported
                        THEN S(fin.authorName) ELSE Normalized.source)
       /\ \A k \in RecipeKeys \ {"source", "source_url"} : out[k] = Normalized[k]
       /\ DOMAIN out = RecipeKeys

\* A reply with its own source and URL: the URL was overridden, the source
\* kept, although an author was reported.
C25_Witness ==
  /\ pc = "returned"
  /\ fin.reply = Message(<<TextBlock(<<Json(PieFromGran)>>)>>)
  /\ fin.authorName = "chef"
  /\ fout.r.recipe.source = S("Gran")
  /\ fout.r.recipe.source_url = S(fin.sourceUrl)
  /\ fout.r.recipe.source_url # Normalized.source_url

(***************************************************************************)
(* The image of a record from the generative path of extractFromURL        *)
(* (checked under SpecUrl).                                                *)
(***************************************************************************)

\* The content of the page's first meta tag that has the attribute
\* key="value" and a non-empty content attribute, in whatever order the
\* tag writes them; Undef when the page has no such tag.
TagContent(tags, key, value) ==
  LET Contents(tag) == {j \in 1..Len(tag) : tag[j].n = "content" /\ tag[j].v # ""}
      has == {t \in 1..Len(tags) :
                /\ \E i \in 1..Len(tags[t]) : tags[t][i].n = key /\ tags[t][i].v = value
                /\ Contents(tags[t]) # {}}
  IN IF has = {} THEN Undef
     ELSE LET t == CHOOSE t \in has : \A u \in has : t <= u
          IN tags[t][CHOOSE j \in Contents(tags[t]) : TRUE].v

\* The generative path returned a record.
GenerativeReturned ==
  pc = "returned" /\ fout.calls = <<"fetch", "extractFromHtml">>

\* image_url as the claim gives it, from the tags found by present.
BackfilledImage(present(_, _, _)) ==
  LET given == ReplyRecipe(fin.reply).recipe.image_url
      og == present(fin.page.meta, "property", "og:image")
      tw == present(fin.page.meta, "name", "twitter:image")
  IN IF given # JUndef THEN given
     ELSE IF og # Undef THEN S(og)
     ELSE IF tw # Undef THEN S(tw)
     ELSE JUndef

\* C26 as stated: on the generative path an image URL given by the reply
\* is kept; without one, image_url is the open-graph image when the page
\* has that tag, else the twitter image when the page has that tag, else
\* absent.
C26_ImageBackfill ==
  GenerativeReturned => fout.r.recipe.image_url = BackfilledImage(TagContent)

\* Every image tag of the page is written with property (or name) before
\* content.
KeyFirstTags(tags) ==
  \A t \in 1..Len(tags) : tags[t][1].n \in {"property", "name"}

\* C26 for pages whose image tags are written property (or name) first
\* (holds; not the claim).
C26_KeyFirstTags ==
  (GenerativeReturned /\ KeyFirstTags(fin.page.meta))
    => fout.r.recipe.image_url = BackfilledImage(TagContent)

\* Both tags, twitter first in the markup: the open-graph image was taken.
C26_KeyFirstTags_Witness ==
  /\ GenerativeReturned
  /\ Len(fin.page.meta) = 2 /\ KeyFirstTags(fin.page.meta)
  /\ fin.page.meta[1][1].v = "twitter:image"
  /\ ReplyRecipe(fin.reply).recipe.image_url = JUndef
  /\ fout.r.recipe.image_url = S("https://img.example.com/og.jpg")

(***************************************************************************)
(* Directions and ingredients of a Recipe node (checked under SpecJsonLd). *)
(***************************************************************************)

\* The text of an instruction entry: the string, or the step object's
\* text, or its name when it has no text.
StepText(step) ==
  IF IsString(step) THEN step.s
  ELSE IF "text" \in DOMAIN step.f THEN step.f.text.s
  ELSE step.f.name.s

\* The lines of a text; none for the empty text.
LinesOf(s) == IF s = "" THEN <<>> ELSE Split(s, "\n")

\* C27: for a Recipe node with a list of N instructions, strings or step
\* objects, the directions are N lines in source order, the i-th being
\* "i. " followed by the entry's text, whatever numbering the text has; the
\* ingredients are the list's entries, one per line, in source order.
C27_DirectionsNumbered ==
  (pc = "returned" /\ fin \in StepNodes) =>
    LET steps == fin.f.recipeInstructions.a
        ings  == fin.f.recipeIngredient.a
        lines == LinesOf(fout.recipe.directions.s)
    IN /\ fout.kind = "recipe"
       /\ Len(lines) = Len(steps)
       /\ \A i \in 1..Len(steps) :
            lines[i] = ToString(i) \o ". " \o StepText(steps[i])
       /\ LinesOf(fout.recipe.ingredients.s) = [i \in 1..Len(ings) |-> ings[i].s]

\* A numbered string, a step with a name and a step with a text became
\* lines 1, 2 and 3.
C27_Witness ==
  /\ pc = "returned" /\ fin \in StepNodes
  /\ fin.f.recipeInstructions.a = <<StepPool[2], StepPool[4], StepPool[3]>>
  /\ fout.recipe.directions = S("1. 3. Bake.\n2. Serve.\n3. Mix.")
  /\ fout.recipe.ingredients = S("1 crust\n2 apples")

(***************************************************************************)
(* The shape of the items parseEmailContent returns (checked under         *)
(* SpecParse).                                                             *)
(***************************************************************************)

\* The attachments of the message whose lower-cased media type is in types,
\* in order.
AttachmentsOfType(types) ==
  SelectSeq(fin.attachments, LAMBDA a : LowerMimeType(a) \in types)

\* A file item made from attachment a: binary data, the media type, and
\* the attachment's file name or the default.
IsFileItem(x, a, tag, default) ==
  /\ DOMAIN x = {"type", "data", "mimeType", "filename"}
  /\ x.type = tag
  /\ x.data.kind = "bytes" /\ x.data.id = a.content.id
  /\ x.mimeType = LowerMimeType(a)
  /\ x.filename = (IF a.filename = Undef \/ a.filename = "" THEN default ELSE a.filename)

\* C28: every returned item sits in the bucket of its tag with the payload
\* of its tag: images and pdfs carry binary data, a media type and a file
\* name ("image" or "document.pdf" when the attachment has none); urls and
\* videos carry a string; every video has a platform and no url has one.
C28_PayloadByTag ==
  pc = "returned" =>
    LET imgs == AttachmentsOfType(Range(SUPPORTED_IMAGE_TYPES))
        docs == AttachmentsOfType({PDF_MIME_TYPE})
    IN /\ Len(fout.images) = Len(imgs)
       /\ \A i \in 1..Len(imgs) : IsFileItem(fout.images[i], imgs[i], "image", "image")
       /\ Len(fout.pdfs) = Len(docs)
       /\ \A i \in 1..Len(docs) : IsFileItem(fout.pdfs[i], docs[i], "pdf", "document.pdf")
       /\ \A i \in 1..Len(fout.urls) :
            /\ DOMAIN fout.urls[i] = {"type", "data"}
            /\ fout.urls[i].type = "url"
            /\ fout.urls[i].data \in STRING
       /\ \A i \in 1..Len(fout.videos) :
            /\ DOMAIN fout.videos[i] = {"type", "data", "platform"}
            /\ fout.videos[i].type = "video"
            /\ fout.videos[i].data \in STRING
            /\ fout.videos[i].platform \in {"tiktok", "instagram"}

\* Attachments without a file name became an image and a PDF with the
\* default names.
C28_Witness ==
  /\ pc = "returned"
  /\ \E i \in 1..Len(fout.images) : fout.images[i].filename = "image"
  /\ \E i \in 1..Len(fout.pdfs) :
       fout.pdfs[i].filename = "document.pdf" /\ fout.pdfs[i].data.kind = "bytes"

\* A body gave a url item and a video item.
C28_Witness_Urls ==
  /\ pc = "returned"
  /\ Len(fout.urls) >= 1 /\ Len(fout.videos) >= 1

(***************************************************************************)
(* The two platform detectors: email-parser's detectVideoPlatform tags a   *)
(* URL, video-downloader's downloadVideo detects the platform again.       *)
(***************************************************************************)

PlatformHosts ==
  {"www.tiktok.com", "vm.tiktok.com", "www.TikTok.com", "tiktok.com.example.org",
   "www.instagram.com", "WWW.INSTAGRAM.COM", "instagram.com", "example.com"}

PlatformPaths ==
  {"/@chef/video/7", "/reel/abc", "/p/xyz/", "/tv/q", "/chef", "/stories/chef/1",
   "/?u=instagram.com/reel/z", "/?u=tiktok.com"}

PlatformInputs ==
  {[url |-> "https://" \o h \o p] : h \in PlatformHosts, p \in PlatformPaths}

InitPlatform ==
  /\ HandlerIdle
  /\ pc = "detectVideoPlatform"
  /\ fin \in PlatformInputs
  /\ fout = NoOutput

\* email-parser.ts lines 156-165: the URL is tagged, and goes to the videos
\* bucket when the tag is a platform.
DetectVideoPlatformApply ==
  /\ pc = "detectVideoPlatform"
  /\ LET platform == detectVideoPlatform(fin.url)
     IN /\ fout' = [platform |-> platform]
        /\ pc' = IF platform = Null THEN "urls" ELSE "videos"
  /\ UNCHANGED <<handlerVars, fin>>

\* index.ts line 109: downloadVideo on an item of the videos bucket.
DownloadVideoApply ==
  /\ pc = "videos"
  /\ \E answer \in VideoInfoAnswers :
       LET d == downloadVideo(fin.url, answer)
       IN /\ fout' = [platform |-> fout.platform, called |-> d.called, r |-> d.r]
          /\ pc' = "downloaded"
  /\ UNCHANGED <<handlerVars, fin>>

NextPlatform == DetectVideoPlatformApply \/ DownloadVideoApply

SpecPlatform == InitPlatform /\ [][NextPlatform]_vars

\* The downloader the outcome of downloadVideo came from: the platform of
\* the video information, or the platform named in the error.
DispatchedTo ==
  IF fout.r.kind # "throw" THEN fout.r.platform
  ELSE IF HasPrefix(fout.r.error, "TikTok API error")
          \/ fout.r.error = "No video URL found in TikTok response" THEN "tiktok"
  ELSE IF HasPrefix(fout.r.error, "Instagram API error")
          \/ fout.r.error = "No video URL found in Instagram response" THEN "instagram"
  ELSE "none"

\* C29: for every URL that detectVideoPlatform tags with platform p,
\* detectPlatform returns p, downloadVideo does not raise "Unsupported video
\* platform" and dispatches to the downloader of p.
C29_DetectorsAgree ==
  /\ pc \in {"videos", "downloaded"} => detectPlatform(fin.url) = fout.platform
  /\ pc = "downloaded" =>
       /\ fout.called
       /\ ~(fout.r.kind = "throw" /\ HasPrefix(fout.r.error, "Unsupported video platform"))
       /\ DispatchedTo = fout.platform

\* An upper-case Instagram reel URL was tagged and its download dispatched.
C29_Witness ==
  /\ pc = "downloaded"
  /\ fin.url = "https://WWW.INSTAGRAM.COM/reel/abc"
  /\ fout.platform = "instagram"
  /\ fout.r.kind # "throw"

\* The detectors differ only on URLs that are not videos for ingestion.
C29_DifferOutsideVideos ==
  /\ pc = "urls"
  /\ detectPlatform(fin.url) = "instagram"

(***************************************************************************)
(* The tally of the email handler: entries of results per processed item.  *)
(***************************************************************************)

\* The entries of results that item i contributed.
EntriesOf(i) == SelectSeq(results, LAMBDA e : e.item = i)

\* Item i is a PDF whose extraction returned without a record.
EmptyPdf(i) ==
  /\ Items(parsed)[i].kind = "pdf"
  /\ \E j \in 1..Len(calls) :
       /\ calls[j].item = i /\ calls[j].op = "extractFromPDF"
       /\ calls[j].error = "" /\ calls[j].records = <<>>

\* C30: when the email handler finishes a message whose parse succeeded,
\* every processed item (the image group, each PDF, each URL, each video)
\* has at least one entry in results, a success or a recorded failure.
C30_EveryItemTallied ==
  (IsEmail /\ pc = "done")
    => \A i \in 1..Len(Items(parsed)) : EntriesOf(i) # <<>>

\* When the email handler finishes, every processed item other than a PDF
\* whose extraction returned no record has at least one entry in results,
\* and such a PDF has none.
C30_ExceptEmptyPdf ==
  (IsEmail /\ pc = "done")
    => \A i \in 1..Len(Items(parsed)) : (EntriesOf(i) = <<>>) <=> EmptyPdf(i)

\* A message with a PDF whose extraction returned no record and a later
\* item that was tallied.
C30_ExceptEmptyPdf_Witness ==
  /\ IsEmail /\ pc = "done"
  /\ \E i \in 1..Len(Items(parsed)) : EmptyPdf(i) /\ EntriesOf(i) = <<>>
  /\ \E i \in 1..Len(Items(parsed)) : Items(parsed)[i].kind # "pdf" /\ EntriesOf(i) # <<>>

====
